---- MODULE Spec2Model ----
(***************************************************************************)
(* A model of the commerce chatbot: the mcp-server utilities (withRetry,   *)
(* Cache, HealthMonitor) and the bridge-service orchestration of one chat  *)
(* turn (ChatService.handleChatMessage / executeMCPTools).                 *)
(*                                                                         *)
(* Each component has its own next-state relation and specification over   *)
(* the shared variables: SpecRetry, SpecCache, SpecHealth and Spec (the    *)
(* chat turn).                                                             *)
(***************************************************************************)
EXTENDS Integers, Sequences, FiniteSets, TLC

\* ------------------------------------------------------------------ bounds
\* withRetry: maxRetries overrides are drawn from 0..MaxRetriesBound, delay
\* overrides from multiples of one second up to MaxDelaySeconds, backoff
\* factors from 1..MaxBackoffFactor.
MaxRetriesBound == 2
MaxDelaySeconds == 3
MaxBackoffFactor == 2

\* Cache: config.ttl (in clock ticks) and config.maxSize of the modelled
\* cache; the clock runs from 0 to MaxTime.
ttl == 2
maxSize == 2
MaxTime == 5

\* HealthMonitor: requests, failed requests and cache accesses recorded per
\* window.
MaxRequests == 20
MaxErrors == 2
MaxCacheAccesses == 3

\* ChatService: turns handled, tool calls the provider asks for in one turn,
\* carts the backend creates.
MaxTurns == 2
MaxToolCalls == 2
MaxCarts == 2

\* fixDeliveryModeCode: cached modes per conversation, characters of a
\* requested code.
MaxModes == 2
MaxCodeLength == 3

\* The guardrail configuration, scaled down: characters, messages per
\* window, conversations per user, and the rate window in clock ticks.
maxMessageLength == 3

maxMessagesPerMinute == 2

maxConversationsPerUser == 2

RateWindow == 2

MaxClock == 3

MaxKnownConversations == 3

\* Requests in flight at once.
MaxInFlight == 3

\* Calls of checkRateLimit per user.
MaxChecks == 4

\* ConversationManager.MAX_MESSAGES, scaled down.
MAX_MESSAGES == 4
\* ConversationManager.MAX_CONVERSATIONS, scaled down.
MAX_CONVERSATIONS == 2
\* Conversation ids the store may issue, messages it may be given, and the
\* readings of its clock.
MaxStoreConversations == 3
MaxAppends == 5
MaxLifecycleAppends == 2
MaxStoreClock == 1
\* Concurrent add-to-cart executions.
MaxCartCallers == 3
\* Tool forcing: order codes, turns, and the messages the tracking loop reads
\* (messages.slice(-5), scaled down).
MaxOrderCodes == 2
MaxForceTurns == 3
RecentMessages == 2
\* Bridge and tool server working on carts: backend carts issued, tool calls.
MaxBackendCarts == 5
MaxSyncCalls == 4
\* Conversations created for one identity through the guarded endpoint.
MaxCreated == 4
\* getAuthToken: the 5-minute buffer and token lifetimes in the model's time
\* unit, readings of the clock, token requests.
BufferTime == 1
MaxExpiresIn == 3
MaxTokenClock == 4
MaxTokenRequests == 3
\* Gateway: backend requests and cache lookups made, failed attempts of one
\* operation.
MaxGatewayRequests == 4
MaxGatewayLookups == 3
MaxFailedAttempts == 1

VARIABLES
    \* withRetry (src/unnamed/part_001, 129-167)
    retryPc,        \* "idle" | "attempt" | "wait" | "returned" | "threw"
    finalConfig,    \* the merged policy
    attempt,        \* loop counter
    delay,          \* next delay to wait
    lastError,      \* error of the latest failed attempt
    retryResult,    \* what the call returned or threw
    invoked,        \* history: outcome of each invocation of operation()
    waited,         \* history: delays waited between attempts
    \* Cache (src/unnamed/part_001, 188-251)
    cache,          \* the Map, as the sequence of its entries in insertion order
    now,            \* Date.now()
    cacheOp,        \* history: the latest operation and what it returned
    \* HealthMonitor (src/unnamed/part_001, 13-102)
    status,         \* HealthStatus
    errorCount,
    requestCount,
    cacheHits,
    cacheMisses,
    \* ChatService / ConversationManager
    conversations,              \* conversation id -> its messages, as [role, content]
    cartsByConversation,        \* conversation id -> cart id
    deliveryModesByConversation,\* conversation id -> stored delivery modes
    cartsCreated,               \* backend: how many carts have been created
    orderedCart,                \* history: the cart the latest successful place-order ordered
    turns,                      \* turns started so far
    turnPc,                     \* where handleChatMessage is
    conversationId,             \* the turn's conversation
    toolCalls,                  \* aiResponse.toolCalls, as executed so far
    toolResults,                \* toolResults
    toolsUsed,                  \* toolsUsed
    response,                   \* what the turn returned
    gatewayCalls,               \* history: the turn's mcpClient.callTool calls
    cartAtStart,                \* history: the stored cart id when the turn began
    isAuthenticated,            \* request.isAuthenticated || false of the turn
    tools,                      \* the catalog passed to the provider by the turn
    sentToProvider,             \* the tool_result blocks of the follow-up provider call
    displayed,                  \* UI client: the assistant message shown for the request
    \* fixDeliveryModeCode (ChatService.ts, 1404-1439)
    deliveryModes,              \* the conversation's cached delivery modes
    requestedCode,              \* toolCall.input.deliveryModeCode of the latest call
    correctedCode,              \* the deliveryModeCode sent to the gateway
    \* POST /api/chat/message (guardrails.ts, chatRoutes.ts)
    rateLimitStore,             \* user key -> { count, resetTime }
    conversationStore,          \* user key -> size of the user's set of conversation ids
    clock,                      \* Date.now() of the guardrails
    request,                    \* history: the latest request
    httpResponse,               \* history: the response it was given
    spies,                      \* history: what the latest request caused
    \* concurrent requests (ChatService.handleChatMessage, ConversationManager)
    raceHistory,                \* conversation id -> its messages, as [request, role]
    racePc,                     \* request -> "pending" | "awaiting" | "replied" | "failed"
    raceTarget,                 \* request -> the conversation id it names
    \* checkRateLimit
    rateLog,                    \* history: user key -> the checks made, as [time, allowed]
    \* ConversationManager and the checkout-state maps of ChatService
    sessionStore,               \* ConversationManager.conversations, in insertion order
    storedCarts,                \* keys of ChatService.cartsByConversation
    storedModes,                \* keys of ChatService.deliveryModesByConversation
    storedOrderCodes,           \* keys of ChatService.lastOrderCodeByConversation
    nextId,                     \* the next id uuidv4() returns
    storeClock,                 \* new Date()
    appended,                   \* messages given to addMessage so far
    storeOp,                    \* the last store operation: [op, id, thrown, removed]
    \* concurrent executions of case 'add-to-cart'
    callerPc,                   \* caller -> "idle", "creating", "adding", "done", "failed"
    callerConversation,         \* caller -> the conversationId of its turn
    callerCartId,               \* caller -> its local cartId
    storedCartIds,              \* cartsByConversation of the concurrent turns
    createCartCalls,            \* history: the conversations of the create-cart calls
    cartSets,                   \* history: [conversationId, cartId] of every cartsByConversation.set
    cartsIssued,                \* cart ids the backend has issued
    \* order-code tracking and tool forcing
    codesInMessages,            \* conversation -> the order code each message holds
    lastOrderCodeByConversation,
    forcePc,                    \* "idle", "awaiting" (the first provider call)
    forceRequest,               \* [conversationId, isAuthenticated, isOrderInquiry, orderCode]
    toolChoice,                 \* the directive of the first provider call
    orderCodeToUse,
    requestedOrderCode,         \* toolCall.input.orderCode of the executed get-order-status
    forceTurns,
    \* add-to-cart across the bridge and the tool server's handler
    bridgeCartId,               \* cartsByConversation.get(conversationId) of one conversation
    backendCarts,               \* the carts the backend holds
    backendIssued,              \* cart ids the backend has issued
    modifiedCart,               \* the cart the latest successful add-to-cart added to
    syncResult,                 \* the latest tool result: "none", "ok", "error"
    syncCalls,
    \* conversations created behind the guardrails
    createdFor,                 \* user key -> conversations created for it
    \* SapCommerceClient.getAuthToken
    authToken,                  \* this.authToken: NoToken or [id, expires_in, obtainedAt]
    tokenClock,                 \* new Date().getTime()
    tokenRequests,              \* token requests answered with a token
    tokenOp,                    \* the latest getAuthToken: [returned, requested, at]
    \* SapCommerceService: gateway operations feeding cache and health monitor
    gatewayRequests,            \* history: backend requests made
    gatewayLookups,             \* history: withCache lookups made
    gatewayOp                   \* the latest operation

retryVars == <<retryPc, finalConfig, attempt, delay, lastError, retryResult, invoked, waited>>

cacheVars == <<cache, now, cacheOp>>

healthVars == <<status, errorCount, requestCount, cacheHits, cacheMisses>>

chatVars ==
    <<conversations, cartsByConversation, deliveryModesByConversation, cartsCreated,
      orderedCart, turns, turnPc, conversationId, toolCalls, toolResults, toolsUsed, response,
      gatewayCalls, cartAtStart, isAuthenticated, tools, sentToProvider, displayed>>

fixVars == <<deliveryModes, requestedCode, correctedCode>>

routeVars == <<rateLimitStore, conversationStore, clock, request, httpResponse, spies>>

raceVars == <<raceHistory, racePc, raceTarget>>

rateVars == <<rateLog>>

storeVars ==
    <<sessionStore, storedCarts, storedModes, storedOrderCodes, nextId, storeClock,
      appended, storeOp>>

cartVars ==
    <<callerPc, callerConversation, callerCartId, storedCartIds, createCartCalls, cartSets,
      cartsIssued>>

forceVars ==
    <<codesInMessages, lastOrderCodeByConversation, forcePc, forceRequest, toolChoice,
      orderCodeToUse, requestedOrderCode, forceTurns>>

syncVars ==
    <<bridgeCartId, backendCarts, backendIssued, modifiedCart, syncResult, syncCalls>>

limitVars == <<createdFor>>

tokenVars == <<authToken, tokenClock, tokenRequests, tokenOp>>

gatewayVars == <<gatewayRequests, gatewayLookups, gatewayOp>>

vars == <<retryVars, cacheVars, healthVars, chatVars, fixVars, routeVars, raceVars, rateVars, storeVars, cartVars, forceVars, syncVars, limitVars, tokenVars, gatewayVars>>

\* ---------------------------------------------------------------- helpers
Min(a, b) == IF a < b THEN a ELSE b

Max(a, b) == IF a > b THEN a ELSE b

Last(s) == s[Len(s)]

\* ======================================================================
\* withRetry
\* ======================================================================
Absent == -1

NoError == -2

\* A transport failure (timeout, no response): error.response is undefined.
TransportTimeout == 0

DEFAULT_RETRY_CONFIG ==
    [maxRetries |-> 2, initialDelay |-> 1000, maxDelay |-> 5000,
     backoffFactor |-> 2, retryableStatuses |-> {408, 429, 500, 502, 503, 504}]

\* RetryConfig: every field optional.
RetryConfigs ==
    [maxRetries : {Absent} \cup 0..MaxRetriesBound,
     initialDelay : {Absent} \cup {1000 * k : k \in 1..MaxDelaySeconds},
     maxDelay : {Absent} \cup {1000 * k : k \in 1..MaxDelaySeconds},
     backoffFactor : {Absent} \cup 1..MaxBackoffFactor]

\* { ...DEFAULT_RETRY_CONFIG, ...config }
MergeConfig(config) ==
    [maxRetries |-> IF config.maxRetries = Absent
                    THEN DEFAULT_RETRY_CONFIG.maxRetries ELSE config.maxRetries,
     initialDelay |-> IF config.initialDelay = Absent
                      THEN DEFAULT_RETRY_CONFIG.initialDelay ELSE config.initialDelay,
     maxDelay |-> IF config.maxDelay = Absent
                  THEN DEFAULT_RETRY_CONFIG.maxDelay ELSE config.maxDelay,
     backoffFactor |-> IF config.backoffFactor = Absent
                       THEN DEFAULT_RETRY_CONFIG.backoffFactor ELSE config.backoffFactor,
     retryableStatuses |-> DEFAULT_RETRY_CONFIG.retryableStatuses]

\* The errors operation() may throw: an HTTP status, or a transport timeout.
ErrorStatuses == {TransportTimeout, 400, 404, 429, 503}

SuccessValues == {"v1", "v2"}

OperationOutcomes ==
    [ok : {TRUE}, value : SuccessValues, error : {NoError}]
        \cup [ok : {FALSE}, value : {"none"}, error : ErrorStatuses]

\* isRetryableError: defined by the module, never called by withRetry.
isRetryableError(error) ==
    IF error = TransportTimeout
    THEN FALSE
    ELSE error \in DEFAULT_RETRY_CONFIG.retryableStatuses

\* new RetryError(`Operation failed after ...`, lastError)
RetryErrorBare(cause) == [kind |-> "error", value |-> "none", cause |-> cause]

RetryError(cause) == [kind |-> "RetryError", value |-> "none", cause |-> cause]

\* if (attempt === finalConfig.maxRetries)
IsFinalAttempt(a, config) == a = config.maxRetries

\* delay = Math.min(delay * finalConfig.backoffFactor, finalConfig.maxDelay)
NextDelay(d, config) == Min(d * config.backoffFactor, config.maxDelay)

RetryInit ==
    /\ retryPc = "idle"
    /\ finalConfig = DEFAULT_RETRY_CONFIG
    /\ attempt = 0
    /\ delay = DEFAULT_RETRY_CONFIG.initialDelay
    /\ lastError = NoError
    /\ retryResult = [kind |-> "pending", value |-> "none", cause |-> NoError]
    /\ invoked = <<>>
    /\ waited = <<>>

\* withRetry(operation, config): merge the policy, enter the loop.
WithRetryCall(config) ==
    /\ retryPc = "idle"
    /\ finalConfig' = MergeConfig(config)
    /\ attempt' = 0
    /\ delay' = MergeConfig(config).initialDelay
    /\ lastError' = NoError
    /\ retryResult' = [kind |-> "pending", value |-> "none", cause |-> NoError]
    /\ invoked' = <<>>
    /\ waited' = <<>>
    /\ retryPc' = "attempt"
    /\ UNCHANGED <<cacheVars, healthVars, chatVars, fixVars, routeVars, raceVars, rateVars, storeVars, cartVars, forceVars, syncVars, limitVars, tokenVars, gatewayVars>>

\* One pass of the loop body up to the await on the timer: operation() is
\* invoked; a success returns, a failure on the final attempt throws the
\* RetryError, any other failure goes on to wait.
WithRetryAttempt(outcome) ==
    /\ retryPc = "attempt"
    /\ invoked' = Append(invoked, outcome)
    /\ IF outcome.ok
       THEN /\ retryResult' = [kind |-> "value", value |-> outcome.value, cause |-> NoError]
            /\ retryPc' = "returned"
            /\ UNCHANGED lastError
       ELSE /\ lastError' = outcome.error
            /\ IF IsFinalAttempt(attempt, finalConfig)
               THEN /\ retryResult' = RetryError(outcome.error)
                    /\ retryPc' = "threw"
               ELSE /\ retryPc' = "wait"
                    /\ UNCHANGED retryResult
    /\ UNCHANGED <<finalConfig, attempt, delay, waited>>
    /\ UNCHANGED <<cacheVars, healthVars, chatVars, fixVars, routeVars, raceVars, rateVars, storeVars, cartVars, forceVars, syncVars, limitVars, tokenVars, gatewayVars>>

\* The timer fires: the delay has been waited, the next one is computed,
\* attempt++ and the loop condition is tested (falling out of the loop throws
\* the 'Unexpected retry failure' RetryError, which carries no cause).
WithRetryWait ==
    /\ retryPc = "wait"
    /\ waited' = Append(waited, delay)
    /\ delay' = NextDelay(delay, finalConfig)
    /\ attempt' = attempt + 1
    /\ IF attempt + 1 <= finalConfig.maxRetries
       THEN /\ retryPc' = "attempt"
            /\ UNCHANGED retryResult
       ELSE /\ retryPc' = "threw"
            /\ retryResult' = RetryError(NoError)
    /\ UNCHANGED <<finalConfig, lastError, invoked>>
    /\ UNCHANGED <<cacheVars, healthVars, chatVars, fixVars, routeVars, raceVars, rateVars, storeVars, cartVars, forceVars, syncVars, limitVars, tokenVars, gatewayVars>>

\* The promise has settled and the caller has taken the result: the call's
\* locals are gone and the next call starts afresh.
WithRetrySettled ==
    /\ retryPc \in {"returned", "threw"}
    /\ retryPc' = "idle"
    /\ finalConfig' = DEFAULT_RETRY_CONFIG
    /\ attempt' = 0
    /\ delay' = DEFAULT_RETRY_CONFIG.initialDelay
    /\ lastError' = NoError
    /\ retryResult' = [kind |-> "pending", value |-> "none", cause |-> NoError]
    /\ invoked' = <<>>
    /\ waited' = <<>>
    /\ UNCHANGED <<cacheVars, healthVars, chatVars, fixVars, routeVars, raceVars, rateVars, storeVars, cartVars, forceVars, syncVars, limitVars, tokenVars, gatewayVars>>

\* ---- claims about withRetry

\* The failure classes the policy calls retryable: a transport timeout or a
\* response with one of the policy's retryable statuses.
RetryableFailure(outcome) ==
    /\ ~outcome.ok
    /\ \/ outcome.error = TransportTimeout
       \/ outcome.error \in finalConfig.retryableStatuses

NonRetryableFailure(outcome) == ~outcome.ok /\ ~RetryableFailure(outcome)

\* C1 (as claimed): for any policy, an operation that fails N <= maxRetries
\* times with a retryable failure and then succeeds returns that success
\* value, and the delays waited in between are non-decreasing and each at
\* most maxDelay.
C1_RetryThenSuccess ==
    LET n == Len(invoked) IN
    (/\ n >= 1
     /\ invoked[n].ok
     /\ \A i \in 1..(n - 1) : RetryableFailure(invoked[i]))
        => /\ retryPc = "returned"
           /\ retryResult = [kind |-> "value", value |-> invoked[n].value, cause |-> NoError]
           /\ Len(waited) = n - 1
           /\ \A i \in 1..Len(waited) : waited[i] <= finalConfig.maxDelay
           /\ \A i \in 1..(Len(waited) - 1) : waited[i] <= waited[i + 1]

\* C2: when the operation fails on every attempt it is invoked exactly
\* maxRetries + 1 times, never more, and the call then throws a RetryError
\* whose cause is the last attempt's error, never a bare underlying error.
C2_ExhaustionWrapsLastError ==
    /\ Len(invoked) <= finalConfig.maxRetries + 1
    /\ retryResult.kind \in {"pending", "value", "RetryError"}
    /\ retryPc = "threw" =>
            /\ Len(invoked) = finalConfig.maxRetries + 1
            /\ \A i \in 1..Len(invoked) : ~invoked[i].ok
            /\ retryResult.kind = "RetryError"
            /\ retryResult.cause = Last(invoked).error
    /\ (/\ Len(invoked) = finalConfig.maxRetries + 1
        /\ \A i \in 1..Len(invoked) : ~invoked[i].ok) => retryPc = "threw"

\* C2 witness: a call exhausted after three failing attempts, the last error
\* differing from the first.
C2_Witness ==
    /\ retryPc = "threw"
    /\ Len(invoked) = 3
    /\ invoked[1].error # invoked[3].error
    /\ retryResult.cause = invoked[3].error

\* C3 (as claimed): a non-retryable failure ends the call at once: the
\* operation is not invoked again and no backoff delay is waited after it.
C3_NonRetryablePropagates ==
    \A i \in 1..Len(invoked) :
        NonRetryableFailure(invoked[i]) =>
            /\ i = Len(invoked)
            /\ retryPc \in {"threw", "idle"}
            /\ Len(waited) < i

NextRetry ==
    \/ \E config \in RetryConfigs : WithRetryCall(config)
    \/ \E outcome \in OperationOutcomes : WithRetryAttempt(outcome)
    \/ WithRetryWait
    \/ WithRetrySettled

\* ======================================================================
\* Cache
\* ======================================================================
Keys == {"k1", "k2", "k3"}

CacheValues == {"a", "b"}

\* What get() returns on a miss.
Undefined == "undefined"

\* The Map keeps insertion order; an overwrite keeps the key's position.
HasKey(entries, key) == \E i \in 1..Len(entries) : entries[i].key = key

IndexOf(entries, key) == CHOOSE i \in 1..Len(entries) : entries[i].key = key

EntryOf(entries, key) == entries[IndexOf(entries, key)]

\* this.cache.delete(key)
MapDelete(entries, key) ==
    SelectSeq(entries, LAMBDA e : e.key # key)

\* this.cache.set(key, entry)
MapSet(entries, entry) ==
    IF HasKey(entries, entry.key)
    THEN [entries EXCEPT ![IndexOf(entries, entry.key)] = entry]
    ELSE Append(entries, entry)

\* entries.reduce((oldest, current) =>
\*     current[1].expiresAt < oldest[1].expiresAt ? current : oldest)
RECURSIVE ReduceOldestLatest(_, _, _)
ReduceOldestLatest(entries, i, oldest) ==
    IF i > Len(entries)
    THEN oldest
    ELSE ReduceOldestLatest(entries, i + 1,
            IF entries[i].expiresAt > oldest.expiresAt THEN entries[i] ELSE oldest)

RECURSIVE ReduceOldest(_, _, _)
ReduceOldest(entries, i, oldest) ==
    IF i > Len(entries)
    THEN oldest
    ELSE ReduceOldest(entries, i + 1,
            IF entries[i].expiresAt < oldest.expiresAt THEN entries[i] ELSE oldest)

OldestEntryLatest(entries) == ReduceOldestLatest(entries, 2, entries[1])

OldestEntry(entries) == ReduceOldest(entries, 2, entries[1])

\* if (Date.now() > entry.expiresAt)
IsExpiredInclusive(t, entry) == t >= entry.expiresAt

IsExpired(t, entry) == t > entry.expiresAt

CacheInit ==
    /\ cache = <<>>
    /\ now = 0
    /\ cacheOp = [op |-> "none", key |-> "none", ret |-> Undefined, evicted |-> "none"]

\* set(key, value)
CacheSet(key, value) ==
    LET afterEviction ==
            IF Len(cache) >= maxSize
            THEN MapDelete(cache, OldestEntry(cache).key)
            ELSE cache
    IN  /\ cache' = MapSet(afterEviction,
                           [key |-> key, value |-> value, expiresAt |-> now + ttl])
        /\ cacheOp' = [op |-> "set", key |-> key, ret |-> Undefined,
                        evicted |-> IF Len(cache) >= maxSize
                                    THEN OldestEntry(cache).key ELSE "none"]
        /\ UNCHANGED now
        /\ UNCHANGED <<retryVars, healthVars, chatVars, fixVars, routeVars, raceVars, rateVars, storeVars, cartVars, forceVars, syncVars, limitVars, tokenVars, gatewayVars>>

\* get(key)
CacheGet(key) ==
    /\ IF ~HasKey(cache, key)
       THEN /\ cacheOp' = [op |-> "get", key |-> key, ret |-> Undefined, evicted |-> "none"]
            /\ UNCHANGED cache
       ELSE IF IsExpired(now, EntryOf(cache, key))
            THEN /\ cache' = MapDelete(cache, key)
                 /\ cacheOp' = [op |-> "get", key |-> key, ret |-> Undefined, evicted |-> "none"]
            ELSE /\ cacheOp' = [op |-> "get", key |-> key,
                                 ret |-> EntryOf(cache, key).value, evicted |-> "none"]
                 /\ UNCHANGED cache
    /\ UNCHANGED now
    /\ UNCHANGED <<retryVars, healthVars, chatVars, fixVars, routeVars, raceVars, rateVars, storeVars, cartVars, forceVars, syncVars, limitVars, tokenVars, gatewayVars>>

\* clear()
CacheClear ==
    /\ cache' = <<>>
    /\ cacheOp' = [op |-> "clear", key |-> "none", ret |-> Undefined, evicted |-> "none"]
    /\ UNCHANGED now
    /\ UNCHANGED <<retryVars, healthVars, chatVars, fixVars, routeVars, raceVars, rateVars, storeVars, cartVars, forceVars, syncVars, limitVars, tokenVars, gatewayVars>>

\* Date.now() moves on.
CacheTick ==
    /\ now < MaxTime
    /\ now' = now + 1
    /\ UNCHANGED <<cache, cacheOp>>
    /\ UNCHANGED <<retryVars, healthVars, chatVars, fixVars, routeVars, raceVars, rateVars, storeVars, cartVars, forceVars, syncVars, limitVars, tokenVars, gatewayVars>>

NextCache ==
    \/ \E key \in Keys, value \in CacheValues : CacheSet(key, value)
    \/ \E key \in Keys : CacheGet(key)
    \/ CacheClear
    \/ CacheTick

\* ---- claims about Cache

\* The time at which the entry was inserted: set() stores now + ttl.
InsertedAt(entry) == entry.expiresAt - ttl

\* set(key, value) leaves key holding value with expiry now + ttl.
SetStores ==
    \A key \in Keys, value \in CacheValues :
        CacheSet(key, value) =>
            /\ HasKey(cache', key)
            /\ EntryOf(cache', key) = [key |-> key, value |-> value, expiresAt |-> now + ttl]

\* C4 (as claimed): a get of a held entry less than ttl after its insertion
\* returns the value, and a get at ttl or more after it, exactly ttl
\* included, reports a miss.
C4_TtlExclusive ==
    [][\A key \in Keys :
        (CacheGet(key) /\ HasKey(cache, key)) =>
            LET entry == EntryOf(cache, key) IN
            /\ now - InsertedAt(entry) < ttl => cacheOp'.ret = entry.value
            /\ now - InsertedAt(entry) >= ttl => cacheOp'.ret = Undefined]_vars

\* C4 (amended): set(key, value) stores the value with expiry now + ttl; a
\* get of the entry, while it is held, returns the value unchanged at every
\* time up to and including ttl after the insertion and reports a miss
\* (deleting the entry) at every time later than that.
C4_TtlInclusive ==
    [][/\ SetStores
       /\ \A key \in Keys :
            (CacheGet(key) /\ HasKey(cache, key)) =>
                LET entry == EntryOf(cache, key) IN
                /\ now - InsertedAt(entry) <= ttl =>
                        cacheOp'.ret = entry.value /\ cache' = cache
                /\ now - InsertedAt(entry) > ttl =>
                        cacheOp'.ret = Undefined /\ ~HasKey(cache', key)]_vars

\* C4 witness: a get exactly ttl after the insertion that returned the value.
C4_Witness ==
    /\ cacheOp.op = "get"
    /\ cacheOp.ret # Undefined
    /\ HasKey(cache, cacheOp.key)
    /\ now = EntryOf(cache, cacheOp.key).expiresAt

\* The keys an entry sequence holds.
KeysOf(entries) == {entries[i].key : i \in 1..Len(entries)}

\* C5: a set that inserts a new key into a cache holding maxSize entries
\* removes exactly one entry, one whose expiry is the earliest, leaves every
\* other entry as it was, and the new entry is present afterwards.
C5_EvictsEarliestExpiry ==
    [][\A key \in Keys, value \in CacheValues :
        (/\ CacheSet(key, value)
         /\ Len(cache) = maxSize
         /\ ~HasKey(cache, key)) =>
            \E gone \in KeysOf(cache) :
                /\ \A k \in KeysOf(cache) :
                        EntryOf(cache, gone).expiresAt <= EntryOf(cache, k).expiresAt
                /\ KeysOf(cache') = (KeysOf(cache) \ {gone}) \cup {key}
                /\ \A k \in KeysOf(cache) \ {gone} : EntryOf(cache', k) = EntryOf(cache, k)
                /\ EntryOf(cache', key).value = value
                /\ Len(cache') = maxSize]_vars

\* C5 witness: a full cache right after a set whose entry is the newest,
\* holding an older entry that survived the eviction.
C5_Witness ==
    /\ cacheOp.op = "set"
    /\ cacheOp.evicted # "none"
    /\ ~HasKey(cache, cacheOp.evicted)
    /\ Len(cache) = maxSize
    /\ maxSize >= 2
    /\ Last(cache).key = cacheOp.key
    /\ Last(cache).expiresAt = now + ttl
    /\ now >= 2
    /\ \A i \in 1..(Len(cache) - 1) : cache[i].expiresAt < now + ttl

\* ======================================================================
\* HealthMonitor
\* ======================================================================
RECURSIVE GCD(_, _)
GCD(a, b) == IF b = 0 THEN a ELSE GCD(b, a % b)

\* A rate is the quotient num / den of two counters, kept in lowest terms.
Rate(num, den) == [num |-> num \div GCD(num, den), den |-> den \div GCD(num, den)]

\* details: {} before the first evaluation.
NoRate == [num |-> 0, den |-> 0]

Latencies == {120}

\* errorRate >= 0.1 || cacheHitRate < 0.3 ... errorRate >= 0.05 || cacheHitRate < 0.5
\* The quotient of two small counters rounds to the same double as the
\* literal it equals and to a different one otherwise, so the comparisons are
\* made exactly, on the counters.
determineStatusStrict(errorRate, cacheHitRate) ==
    IF 10 * errorRate.num > errorRate.den \/ 10 * cacheHitRate.num < 3 * cacheHitRate.den
    THEN "unhealthy"
    ELSE IF 20 * errorRate.num >= errorRate.den \/ 2 * cacheHitRate.num < cacheHitRate.den
         THEN "degraded"
         ELSE "healthy"

determineStatus(errorRate, cacheHitRate) ==
    IF 10 * errorRate.num >= errorRate.den \/ 10 * cacheHitRate.num < 3 * cacheHitRate.den
    THEN "unhealthy"
    ELSE IF 20 * errorRate.num >= errorRate.den \/ 2 * cacheHitRate.num < cacheHitRate.den
         THEN "degraded"
         ELSE "healthy"

\* const errorRate = this.requestCount > 0 ? this.errorCount / this.requestCount : 0
WindowErrorRate == IF requestCount > 0 THEN Rate(errorCount, requestCount) ELSE Rate(0, 1)

\* const cacheHitRate = (hits + misses) > 0 ? hits / (hits + misses) : 1
WindowCacheHitRate ==
    IF cacheHits + cacheMisses > 0
    THEN Rate(cacheHits, cacheHits + cacheMisses)
    ELSE Rate(1, 1)

HealthInit ==
    /\ status = [status |-> "healthy", lastCheck |-> "constructed", apiLatency |-> Absent,
                 errorRate |-> NoRate, cacheHitRate |-> NoRate]
    /\ errorCount = 0
    /\ requestCount = 0
    /\ cacheHits = 0
    /\ cacheMisses = 0

\* An evaluation that leaves the counters running.
checkHealthCumulative ==
    /\ status' = [status |-> determineStatus(WindowErrorRate, WindowCacheHitRate),
                  lastCheck |-> "evaluated",
                  apiLatency |-> status.apiLatency,
                  errorRate |-> WindowErrorRate,
                  cacheHitRate |-> WindowCacheHitRate]
    /\ UNCHANGED <<errorCount, requestCount, cacheHits, cacheMisses>>
    /\ UNCHANGED <<retryVars, cacheVars, chatVars, fixVars, routeVars, raceVars, rateVars, storeVars, cartVars, forceVars, syncVars, limitVars, tokenVars, gatewayVars>>

\* checkHealth(), run by the interval timer.
checkHealth ==
    /\ status' = [status |-> determineStatus(WindowErrorRate, WindowCacheHitRate),
                  lastCheck |-> "evaluated",
                  apiLatency |-> status.apiLatency,
                  errorRate |-> WindowErrorRate,
                  cacheHitRate |-> WindowCacheHitRate]
    /\ errorCount' = 0
    /\ requestCount' = 0
    /\ cacheHits' = 0
    /\ cacheMisses' = 0
    /\ UNCHANGED <<retryVars, cacheVars, chatVars, fixVars, routeVars, raceVars, rateVars, storeVars, cartVars, forceVars, syncVars, limitVars, tokenVars, gatewayVars>>

\* recordRequestComplete(latencyMs, hasError)
recordRequestComplete(latencyMs, hasError) ==
    /\ requestCount < MaxRequests
    /\ hasError => errorCount < MaxErrors
    /\ requestCount' = requestCount + 1
    /\ errorCount' = IF hasError THEN errorCount + 1 ELSE errorCount
    /\ status' = [status EXCEPT !.apiLatency = latencyMs]
    /\ UNCHANGED <<cacheHits, cacheMisses>>
    /\ UNCHANGED <<retryVars, cacheVars, chatVars, fixVars, routeVars, raceVars, rateVars, storeVars, cartVars, forceVars, syncVars, limitVars, tokenVars, gatewayVars>>

\* recordCacheAccess(hit)
recordCacheAccess(hit) ==
    /\ cacheHits + cacheMisses < MaxCacheAccesses
    /\ cacheHits' = IF hit THEN cacheHits + 1 ELSE cacheHits
    /\ cacheMisses' = IF hit THEN cacheMisses ELSE cacheMisses + 1
    /\ UNCHANGED <<status, errorCount, requestCount>>
    /\ UNCHANGED <<retryVars, cacheVars, chatVars, fixVars, routeVars, raceVars, rateVars, storeVars, cartVars, forceVars, syncVars, limitVars, tokenVars, gatewayVars>>

NextHealth ==
    \/ checkHealth
    \/ \E latencyMs \in Latencies, hasError \in BOOLEAN : recordRequestComplete(latencyMs, hasError)
    \/ \E hit \in BOOLEAN : recordCacheAccess(hit)

\* ---- claims about HealthMonitor

\* rate >= p percent, rate < p percent
AtLeastPercent(rate, p) == 100 * rate.num >= p * rate.den

BelowPercent(rate, p) == 100 * rate.num < p * rate.den

\* C6: at each evaluation the status is unhealthy if the window's error rate
\* is at least 10% or its cache hit rate below 30%; otherwise degraded if the
\* error rate is at least 5% or the hit rate below 50%; otherwise healthy.
\* (An empty window counts as error rate 0 and hit rate 1.)
C6_HealthClassification ==
    [][checkHealth =>
        LET e == WindowErrorRate
            h == WindowCacheHitRate
        IN  /\ status'.errorRate = e
            /\ status'.cacheHitRate = h
            /\ (AtLeastPercent(e, 10) \/ BelowPercent(h, 30)) => status'.status = "unhealthy"
            /\ (/\ ~(AtLeastPercent(e, 10) \/ BelowPercent(h, 30))
                /\ (AtLeastPercent(e, 5) \/ BelowPercent(h, 50))) => status'.status = "degraded"
            /\ (BelowPercent(e, 5) /\ AtLeastPercent(h, 50)) => status'.status = "healthy"]_vars

\* C6 witness: an evaluation of a window whose error rate was exactly 10%
\* and whose cache hit rate was 100%, classified unhealthy.
C6_Witness ==
    /\ status.lastCheck = "evaluated"
    /\ status.errorRate = [num |-> 1, den |-> 10]
    /\ status.cacheHitRate = [num |-> 1, den |-> 1]
    /\ status.status = "unhealthy"
    /\ requestCount = 0


\* ======================================================================
\* ChatService: one chat turn (handleChatMessage, executeMCPTools)
\* ======================================================================
\* The ids uuidv4() hands out, in the order it hands them out.
NewConversationIds == <<"c1", "c2">>

ConversationIds == {NewConversationIds[i] : i \in 1..Len(NewConversationIds)}

NoCart == 0

CartIds == 1..MaxCarts

NoModes == "none"

\* The deliveryModes arrays the backend may answer with.
ModeLists == {"modesA", "modesB"}

\* The tools the provider may ask for (search-products stands for the
\* read-only catalog tools, unknown-tool for a name the switch does not know).
ToolNames ==
    {"search-products", "place-order", "create-cart", "get-cart", "add-to-cart",
     "update-cart-entry", "remove-from-cart", "set-delivery-address",
     "get-delivery-modes", "set-delivery-mode", "set-payment-details", "unknown-tool",
     "get-order-status", "get-order-history"}

\* The cases of the switch that read toolCall.input.cartId.
ReadsInputCartId ==
    {"place-order", "get-cart", "add-to-cart", "update-cart-entry", "remove-from-cart"}

\* The tool server declares cartId: z.string() for these tools.
RequiresCartId ==
    {"place-order", "get-cart", "add-to-cart", "update-cart-entry", "remove-from-cart",
     "set-delivery-address", "get-delivery-modes", "set-delivery-mode",
     "set-payment-details"}

\* What mcpClient.callTool resolves to:
\*   ok           the handler's success payload, isError false
\*   errorText    the handler caught a failure: "Error: ..." text, isError unset
\*   isError      the call itself failed (MCPClient.callTool's catch), isError true
\*   unauthorized isError true and the payload mentions 401 / Unauthorized
ResultKinds == {"ok", "errorText", "isError", "unauthorized"}

\* A tool call as the provider returns it: the name and the parts of the
\* input the switch reads (input.cartId; input.billingAddress present or not).
ToolCall(name, cartId, billing) ==
    [name |-> name, cartId |-> cartId, billing |-> billing, auto |-> FALSE]

\* The result of one mcpClient.callTool: kind, and the payload it carries
\* (a new cart id for create-cart, a deliveryModes array for get-delivery-modes).
GatewayCall(name, cartId, kind) == [name |-> name, cartId |-> cartId, kind |-> kind]

\* a || b on cart ids
OrElse(a, b) == IF a # NoCart THEN a ELSE b

\* The kinds a call through the gateway can resolve to: a call that lacks a
\* cartId the tool's schema requires is rejected before its handler runs.
PossibleKinds(name, cartId) ==
    IF name \in RequiresCartId /\ cartId = NoCart
    THEN {"isError"}
    ELSE ResultKinds

\* What executing one tool call does (one pass of the loop of
\* executeMCPTools): the gateway calls made, the conversation's cart id and
\* delivery modes afterwards, whether a cart was created, and whether the
\* pushed result carries an error field (only the catch block sets it).
\* k1 is the kind of the first gateway call made, k2 of the second (add-to-cart
\* after its implicit create-cart), modes the payload of a get-delivery-modes.
Effect(calls, cart, modes, created, error, kind) ==
    [calls |-> calls, cart |-> cart, modes |-> modes, created |-> created,
     error |-> error, kind |-> kind]

AddToCartNoCreate(call, stored, oldModes, newCart, k1, k2) ==
    Effect(<<GatewayCall("add-to-cart", OrElse(call.cartId, stored), k2)>>,
           stored, oldModes, FALSE, FALSE, k2)

AddToCart(call, stored, oldModes, newCart, k1, k2) ==
    IF OrElse(call.cartId, stored) # NoCart
    THEN Effect(<<GatewayCall("add-to-cart", OrElse(call.cartId, stored), k2)>>,
                stored, oldModes, FALSE, FALSE, k2)
    ELSE IF k1 = "ok"
         THEN Effect(<<GatewayCall("create-cart", NoCart, k1),
                       GatewayCall("add-to-cart", newCart, k2)>>,
                     newCart, oldModes, TRUE, FALSE, k2)
         ELSE \* JSON.parse of the error text throws, or no cartId is found
              Effect(<<GatewayCall("create-cart", NoCart, k1)>>,
                     stored, oldModes, FALSE, TRUE, "thrown")

PlaceOrder(call, stored, oldModes, k1) ==
    Effect(<<GatewayCall("place-order", OrElse(call.cartId, stored), k1)>>,
           IF OrElse(call.cartId, stored) # NoCart THEN NoCart ELSE stored,
           oldModes, FALSE, FALSE, k1)

CreateCart(stored, oldModes, newCart, k1) ==
    IF k1 = "ok"
    THEN Effect(<<GatewayCall("create-cart", NoCart, k1)>>, newCart, oldModes, TRUE, FALSE, k1)
    ELSE IF k1 = "errorText"
         THEN \* content && !isError: JSON.parse of the error text throws
              Effect(<<GatewayCall("create-cart", NoCart, k1)>>, stored, oldModes, FALSE, TRUE, "thrown")
         ELSE Effect(<<GatewayCall("create-cart", NoCart, k1)>>, stored, oldModes, FALSE, FALSE, k1)

GetCart(call, stored, oldModes, k1) ==
    IF OrElse(call.cartId, stored) = NoCart
    THEN Effect(<<>>, stored, oldModes, FALSE, FALSE, "ok")
    ELSE Effect(<<GatewayCall("get-cart", OrElse(call.cartId, stored), k1)>>,
                stored, oldModes, FALSE, FALSE, k1)

\* update-cart-entry and remove-from-cart
CartEntryCall(call, stored, oldModes, k1) ==
    Effect(<<GatewayCall(call.name, OrElse(call.cartId, stored), k1)>>,
           stored, oldModes, FALSE, FALSE, k1)

SetDeliveryAddress(stored, oldModes, k1) ==
    IF stored = NoCart
    THEN \* the 'No cart exists' result, isError true, no gateway call
         Effect(<<>>, stored, oldModes, FALSE, FALSE, "isError")
    ELSE Effect(<<GatewayCall("set-delivery-address", stored, k1)>>,
                stored, oldModes, FALSE, FALSE, k1)

\* storeDeliveryModes: the payload is stored when it parses and holds a
\* deliveryModes array.
StoredModes(oldModes, kind, modes) == IF kind = "ok" THEN modes ELSE oldModes

GetDeliveryModes(stored, oldModes, k1, modes) ==
    Effect(<<GatewayCall("get-delivery-modes", stored, k1)>>,
           stored, StoredModes(oldModes, k1, modes), FALSE, FALSE, k1)

SetDeliveryMode(stored, oldModes, k1) ==
    Effect(<<GatewayCall("set-delivery-mode", stored, k1)>>,
           stored, oldModes, FALSE, FALSE, k1)

SetPaymentDetails(call, stored, oldModes, k1) ==
    IF ~call.billing
    THEN \* toolCall.input.billingAddress.title: TypeError, caught
         Effect(<<>>, stored, oldModes, FALSE, TRUE, "thrown")
    ELSE Effect(<<GatewayCall("set-payment-details", stored, k1)>>,
                stored, oldModes, FALSE, FALSE, k1)

ExecuteTool(call, stored, oldModes, newCart, k1, k2, modes) ==
    CASE call.name = "search-products" ->
            Effect(<<GatewayCall("search-products", NoCart, k1)>>,
                   stored, oldModes, FALSE, FALSE, k1)
      [] call.name \in {"get-order-status", "get-order-history"} ->
            Effect(<<GatewayCall(call.name, NoCart, k1)>>, stored, oldModes, FALSE, FALSE, k1)
      [] call.name = "place-order" -> PlaceOrder(call, stored, oldModes, k1)
      [] call.name = "create-cart" -> CreateCart(stored, oldModes, newCart, k1)
      [] call.name = "get-cart" -> GetCart(call, stored, oldModes, k1)
      [] call.name = "add-to-cart" -> AddToCart(call, stored, oldModes, newCart, k1, k2)
      [] call.name \in {"update-cart-entry", "remove-from-cart"} ->
            CartEntryCall(call, stored, oldModes, k1)
      [] call.name = "set-delivery-address" -> SetDeliveryAddress(stored, oldModes, k1)
      [] call.name = "get-delivery-modes" -> GetDeliveryModes(stored, oldModes, k1, modes)
      [] call.name = "set-delivery-mode" -> SetDeliveryMode(stored, oldModes, k1)
      [] call.name = "set-payment-details" -> SetPaymentDetails(call, stored, oldModes, k1)
      [] OTHER -> \* default: { error: 'Unknown tool' }, pushed without an error field
            Effect(<<>>, stored, oldModes, FALSE, FALSE, "unknown")

\* ---- handleChatMessage


NoConversation == [exists |-> FALSE, messages |-> <<>>]

NoResponse ==
    [status |-> "none", conversationId |-> "none", mcpToolsUsed |-> <<>>,
     http |-> 0, error |-> "none", message |-> "none"]

\* getMCPToolDefinitions: the base tools, and the tools added for an
\* authenticated caller.
baseTools ==
    {"search-products", "search-products-advanced", "get-product-details",
     "check-product-availability", "get-categories", "get-products-by-category",
     "get-promotions", "get-product-reviews", "get-product-suggestions", "get-cart",
     "add-to-cart", "update-cart-entry", "remove-from-cart", "set-delivery-address",
     "get-delivery-modes", "set-delivery-mode", "set-payment-details"}

authenticatedTools == {"place-order", "get-order-status", "get-order-history"}

\* The catalog without the gate.
getMCPToolDefinitionsUngated(authenticated) == baseTools \cup authenticatedTools

getMCPToolDefinitions(authenticated) ==
    IF authenticated THEN baseTools \cup authenticatedTools ELSE baseTools

\* error.message of a failed provider call.
ProviderErrors == {"401 invalid x-api-key", "529 overloaded"}

\* aiResponse.content of the provider's final answer: the text blocks
\* joined, empty when there is none.
ProviderTexts == {"", "text"}

Placeholder == "Processing your request..."

\* The reply without the substitution.
responseContentAsReturned(content) == content

\* aiResponse.content || 'Processing your request...'
responseContent(content) == IF content = "" THEN Placeholder ELSE content

\* The assistant message the UI client adds to its stream for a failed
\* request (for a successful one it shows response.message).
ErrorShown == "Sorry, I encountered an error. Please try again."

\* The UI client's error handler showing the error it caught.
catchErrorEcho(error) == error

\* catchError(error => ...) of the UI client's sendMessage: the assistant
\* message it adds and returns for a failed request.
catchError(error) == ErrorShown

\* toolResults.map(result => ({ type: 'tool_result', tool_use_id, content })),
\* leaving out the results of the calls that threw.
ToolResultBlocksWithoutThrown(results) ==
    LET kept == SelectSeq([i \in 1..Len(results) |-> [index |-> i, result |-> results[i]]],
                          LAMBDA r : ~r.result.error)
    IN  [i \in 1..Len(kept) |-> [tool_use_id |-> kept[i].index, content |-> kept[i].result.kind]]

\* toolResults.map(result => ({ type: 'tool_result', tool_use_id,
\*                              content: JSON.stringify(result.content || result.error) }))
ToolResultBlocks(results) ==
    [i \in 1..Len(results) |-> [tool_use_id |-> i, content |-> results[i].kind]]

\* m.role === 'assistant' && m.metadata?.mcpToolsUsed?.includes('system'):
\* such a message has the role "system" here.
IsSystemMessage(m) == m.role = "system"

\* Array.prototype.slice(start) for an integer start: a negative start
\* counts from the end, and -0 is 0.
Slice(seq, start) ==
    IF start >= 0
    THEN SubSeq(seq, start + 1, Len(seq))
    ELSE SubSeq(seq, Max(1, Len(seq) + start + 1), Len(seq))

\* The pruning that keeps the latest MAX_MESSAGES messages only.
PruneLatest(messages) == Slice(messages, 0 - MAX_MESSAGES)

\* The pruning of addMessage: [...systemMessages, ...recentMessages]
Prune(messages) ==
    LET systemMessages == SelectSeq(messages, IsSystemMessage)
    IN  systemMessages \o Slice(messages, 0 - (MAX_MESSAGES - Len(systemMessages)))

\* ConversationManager.addMessage on a known conversation: push, then prune
\* when the cap is exceeded.
addMessage(conversation, message) ==
    LET messages == Append(conversation.messages, message) IN
    [conversation EXCEPT !.messages =
        IF Len(messages) > MAX_MESSAGES THEN Prune(messages) ELSE messages]

\* The inputs a call to the named tool may carry, as far as the switch reads
\* them: a cartId (one the backend has issued) where the case reads
\* input.cartId, a billingAddress or none for set-payment-details.
ToolCallsFor(name) ==
    {ToolCall(name, cartId, billing) :
        cartId \in (IF name \in ReadsInputCartId THEN {NoCart} \cup 1..cartsCreated ELSE {NoCart}),
        billing \in (IF name = "set-payment-details" THEN BOOLEAN ELSE {TRUE})}

\* The kinds the second gateway call of a tool call can resolve to: only
\* add-to-cart makes one, after a create-cart that answered with a cart.
SecondKinds(call, stored, k1) ==
    IF call.name = "add-to-cart" /\ OrElse(call.cartId, stored) = NoCart /\ k1 = "ok"
    THEN ResultKinds
    ELSE {"ok"}

\* The deliveryModes payloads the call can come back with.
ModesFor(call, k1) ==
    IF call.name = "get-delivery-modes" /\ k1 = "ok" THEN ModeLists ELSE {NoModes}

\* The kind of the gateway calls an effect lists is one the gateway can
\* produce, and a cart is created only while the backend has one to give.
Realisable(effect) ==
    /\ \A i \in 1..Len(effect.calls) :
            effect.calls[i].kind \in PossibleKinds(effect.calls[i].name, effect.calls[i].cartId)
    /\ effect.created => cartsCreated < MaxCarts

\* { tool_use_id, content, products } or, from the catch block,
\* { tool_use_id, error }
ToolResult(effect, modes) == [error |-> effect.error, kind |-> effect.kind, modes |-> modes]

\* toolResults.find(r => toolCalls.find(tc => tc.id === r.tool_use_id && tc.name === name))
FirstResultOf(name) ==
    toolResults[CHOOSE i \in 1..Len(toolCalls) :
                    /\ toolCalls[i].name = name
                    /\ \A j \in 1..(i - 1) : toolCalls[j].name # name]

\* The chain condition tested on the latest call only.
ChainsAfterLast(name) ==
    /\ Len(toolCalls) > 0
    /\ Last(toolCalls).name = name
    /\ ~Last(toolResults).error

\* toolsUsed.includes(name) && result && !result.error
ChainsAfter(name) ==
    /\ \E i \in 1..Len(toolsUsed) : toolsUsed[i] = name
    /\ \E i \in 1..Len(toolCalls) : toolCalls[i].name = name
    /\ ~FirstResultOf(name).error

ChatInit ==
    /\ conversations = [c \in ConversationIds |-> NoConversation]
    /\ cartsByConversation = [c \in ConversationIds |-> NoCart]
    /\ deliveryModesByConversation = [c \in ConversationIds |-> NoModes]
    /\ orderedCart = [c \in ConversationIds |-> NoCart]
    /\ cartsCreated = 0
    /\ turns = 0
    /\ turnPc = "idle"
    /\ conversationId = "none"
    /\ toolCalls = <<>>
    /\ toolResults = <<>>
    /\ toolsUsed = <<>>
    /\ response = NoResponse
    /\ gatewayCalls = <<>>
    /\ cartAtStart = NoCart
    /\ isAuthenticated = FALSE
    /\ tools = {}
    /\ sentToProvider = <<>>
    /\ displayed = "none"

\* handleChatMessage up to the first provider call: the conversation is
\* created when the request names none, the user message is appended.
HandleChatMessage(c, isNew, authenticated) ==
    /\ turnPc = "idle"
    /\ turns < MaxTurns
    /\ conversations[c].exists = ~isNew
    /\ isNew => c = NewConversationIds[1 + Cardinality({d \in ConversationIds :
                                                        conversations[d].exists})]
    /\ conversations' =
            [conversations EXCEPT ![c] = addMessage([exists |-> TRUE, messages |-> @.messages],
                                                      [role |-> "user", content |-> "text"])]
    /\ turns' = turns + 1
    /\ turnPc' = "provider"
    /\ conversationId' = c
    /\ toolCalls' = <<>>
    /\ toolResults' = <<>>
    /\ toolsUsed' = <<>>
    /\ response' = NoResponse
    /\ gatewayCalls' = <<>>
    /\ cartAtStart' = cartsByConversation[c]
    /\ isAuthenticated' = authenticated
    /\ tools' = getMCPToolDefinitions(authenticated)
    /\ sentToProvider' = <<>>
    /\ displayed' = "none"
    /\ UNCHANGED <<cartsByConversation, deliveryModesByConversation, orderedCart, cartsCreated>>
    /\ UNCHANGED <<retryVars, cacheVars, healthVars, fixVars, routeVars, raceVars, rateVars, storeVars, cartVars, forceVars, syncVars, limitVars, tokenVars, gatewayVars>>

\* A provider call fails: the error leaves handleChatMessage.
ProviderFails ==
    /\ turnPc \in {"provider", "provider2"}
    /\ \E e \in ProviderErrors :
            /\ response' = [status |-> "error", conversationId |-> conversationId,
                            mcpToolsUsed |-> <<>>,
                            http |-> 500, error |-> "Internal server error", message |-> e]
            /\ displayed' = catchError(e)
    /\ turnPc' = "idle"
    /\ UNCHANGED <<conversations, cartsByConversation, deliveryModesByConversation, orderedCart,
                   cartsCreated, turns, conversationId, toolCalls, toolResults, toolsUsed,
                   gatewayCalls, cartAtStart, isAuthenticated, tools, sentToProvider>>
    /\ UNCHANGED <<retryVars, cacheVars, healthVars, fixVars, routeVars, raceVars, rateVars, storeVars, cartVars, forceVars, syncVars, limitVars, tokenVars, gatewayVars>>

\* The provider answers with text: after the first call when it asks for no
\* tool, after the second call otherwise. The assistant message is appended
\* and the response built (metadata.mcpToolsUsed: toolsUsed).
ProviderAnswers ==
    /\ turnPc \in {"provider", "provider2"}
    /\ \E content \in ProviderTexts :
            /\ conversations' =
                    [conversations EXCEPT ![conversationId] =
                        addMessage(@, [role |-> "assistant", content |-> responseContent(content)])]
            /\ response' = [status |-> "ok", conversationId |-> conversationId,
                            mcpToolsUsed |-> toolsUsed,
                            http |-> 200, error |-> "none", message |-> responseContent(content)]
            /\ displayed' = responseContent(content)
    /\ turnPc' = "idle"
    /\ UNCHANGED <<cartsByConversation, deliveryModesByConversation, orderedCart, cartsCreated,
                   turns, conversationId, toolCalls, toolResults, toolsUsed, gatewayCalls,
                   cartAtStart, isAuthenticated, tools, sentToProvider>>
    /\ UNCHANGED <<retryVars, cacheVars, healthVars, fixVars, routeVars, raceVars, rateVars, storeVars, cartVars, forceVars, syncVars, limitVars, tokenVars, gatewayVars>>

\* The provider's first answer asks for tools.
ProviderRequestsTools ==
    /\ turnPc = "provider"
    /\ turnPc' = "tools"
    /\ UNCHANGED <<conversations, cartsByConversation, deliveryModesByConversation, orderedCart,
                   cartsCreated, turns, conversationId, toolCalls, toolResults, toolsUsed,
                   response, gatewayCalls, cartAtStart, isAuthenticated, tools, sentToProvider,
                   displayed>>
    /\ UNCHANGED <<retryVars, cacheVars, healthVars, fixVars, routeVars, raceVars, rateVars, storeVars, cartVars, forceVars, syncVars, limitVars, tokenVars, gatewayVars>>

\* The state a tool call's effect leaves behind (shared by the loop of
\* executeMCPTools and the two automatic calls).
ApplyEffect(call, effect, modes) ==
    /\ Realisable(effect)
    /\ cartsByConversation' = [cartsByConversation EXCEPT ![conversationId] = effect.cart]
    /\ deliveryModesByConversation' =
            [deliveryModesByConversation EXCEPT ![conversationId] = effect.modes]
    /\ orderedCart' =
            [orderedCart EXCEPT ![conversationId] =
                IF call.name = "place-order" /\ effect.kind = "ok"
                THEN effect.calls[1].cartId
                ELSE IF effect.created THEN NoCart ELSE @]
    /\ cartsCreated' = IF effect.created THEN cartsCreated + 1 ELSE cartsCreated
    /\ toolCalls' = Append(toolCalls, call)
    /\ toolResults' = Append(toolResults, ToolResult(effect, modes))
    /\ gatewayCalls' = gatewayCalls \o effect.calls

\* One pass of the loop of executeMCPTools over the calls the provider asked
\* for: the call, and what the gateway answers, are the step's inputs.
ExecuteNextTool ==
    /\ turnPc = "tools"
    /\ Len(toolCalls) < MaxToolCalls
    /\ \E name \in ToolNames : \E call \in ToolCallsFor(name) : \E k1 \in ResultKinds :
        \E k2 \in SecondKinds(call, cartsByConversation[conversationId], k1),
           modes \in ModesFor(call, k1) :
            ApplyEffect(call,
                        ExecuteTool(call, cartsByConversation[conversationId],
                                    deliveryModesByConversation[conversationId],
                                    cartsCreated + 1, k1, k2, modes),
                        modes)
    /\ UNCHANGED <<conversations, turns, turnPc, conversationId, toolsUsed, response, cartAtStart,
                   isAuthenticated, tools, sentToProvider, displayed>>
    /\ UNCHANGED <<retryVars, cacheVars, healthVars, fixVars, routeVars, raceVars, rateVars, storeVars, cartVars, forceVars, syncVars, limitVars, tokenVars, gatewayVars>>

\* executeMCPTools has returned: toolsUsed = aiResponse.toolCalls.map(tc => tc.name)
ToolsExecuted ==
    /\ turnPc = "tools"
    /\ Len(toolCalls) > 0
    /\ toolsUsed' = [i \in 1..Len(toolCalls) |-> toolCalls[i].name]
    /\ turnPc' = "autoPlaceOrder"
    /\ UNCHANGED <<conversations, cartsByConversation, deliveryModesByConversation, orderedCart,
                   cartsCreated, turns, conversationId, toolCalls, toolResults, response,
                   gatewayCalls, cartAtStart, isAuthenticated, tools, sentToProvider, displayed>>
    /\ UNCHANGED <<retryVars, cacheVars, healthVars, fixVars, routeVars, raceVars, rateVars, storeVars, cartVars, forceVars, syncVars, limitVars, tokenVars, gatewayVars>>

AutoCall(name) == [name |-> name, cartId |-> NoCart, billing |-> TRUE, auto |-> TRUE]

\* Auto-trigger place-order after set-payment-details: executeMCPTools runs
\* the synthetic call, which is pushed onto toolCalls, toolResults, toolsUsed.
AutoPlaceOrder ==
    /\ turnPc = "autoPlaceOrder"
    /\ IF ChainsAfter("set-payment-details")
       THEN /\ \E k1 \in ResultKinds :
                ApplyEffect(AutoCall("place-order"),
                            ExecuteTool(AutoCall("place-order"),
                                        cartsByConversation[conversationId],
                                        deliveryModesByConversation[conversationId],
                                        cartsCreated + 1, k1, "ok", NoModes),
                            NoModes)
            /\ toolsUsed' = Append(toolsUsed, "place-order")
       ELSE UNCHANGED <<cartsByConversation, deliveryModesByConversation, orderedCart,
                        cartsCreated, toolCalls, toolResults, toolsUsed, gatewayCalls>>
    /\ turnPc' = "autoDeliveryModes"
    /\ UNCHANGED <<conversations, turns, conversationId, response, cartAtStart, isAuthenticated,
                   tools, sentToProvider, displayed>>
    /\ UNCHANGED <<retryVars, cacheVars, healthVars, fixVars, routeVars, raceVars, rateVars, storeVars, cartVars, forceVars, syncVars, limitVars, tokenVars, gatewayVars>>

\* Auto-trigger get-delivery-modes after set-delivery-address, and store
\* the modes it returns; then the tool results go back to the provider.
AutoDeliveryModes ==
    /\ turnPc = "autoDeliveryModes"
    /\ IF ChainsAfter("set-delivery-address")
       THEN /\ \E k1 \in ResultKinds :
                \E modes \in ModesFor(AutoCall("get-delivery-modes"), k1) :
                    ApplyEffect(AutoCall("get-delivery-modes"),
                                ExecuteTool(AutoCall("get-delivery-modes"),
                                            cartsByConversation[conversationId],
                                            deliveryModesByConversation[conversationId],
                                            cartsCreated + 1, k1, "ok", modes),
                                modes)
            /\ toolsUsed' = Append(toolsUsed, "get-delivery-modes")
       ELSE UNCHANGED <<cartsByConversation, deliveryModesByConversation, orderedCart,
                        cartsCreated, toolCalls, toolResults, toolsUsed, gatewayCalls>>
    /\ sentToProvider' = ToolResultBlocks(toolResults')
    /\ turnPc' = "provider2"
    /\ UNCHANGED <<conversations, turns, conversationId, response, cartAtStart, isAuthenticated,
                   tools, displayed>>
    /\ UNCHANGED <<retryVars, cacheVars, healthVars, fixVars, routeVars, raceVars, rateVars, storeVars, cartVars, forceVars, syncVars, limitVars, tokenVars, gatewayVars>>

Next ==
    \/ \E c \in ConversationIds, isNew \in BOOLEAN, authenticated \in BOOLEAN :
            HandleChatMessage(c, isNew, authenticated)
    \/ ProviderFails
    \/ ProviderAnswers
    \/ ProviderRequestsTools
    \/ ExecuteNextTool
    \/ ToolsExecuted
    \/ AutoPlaceOrder
    \/ AutoDeliveryModes

\* ======================================================================
\* ChatService.fixDeliveryModeCode and the set-delivery-mode case
\* ======================================================================
\* Strings are sequences of characters.
Chars == {"s", "S", "p", "-", "n"}

\* The strings of at most n characters.
StringsUpTo(n) == UNION {[1..k -> Chars] : k \in 0..n}

\* String.prototype.toLowerCase, on the letters in use.
LowerChar(ch) ==
    CASE ch = "S" -> "s"
      [] ch = "P" -> "p"
      [] OTHER -> ch

toLowerCase(str) == [i \in 1..Len(str) |-> LowerChar(str[i])]

\* str.split('-')[0]: the part before the first '-', the whole string when
\* it has none.
SplitFirst(str) ==
    IF \E i \in 1..Len(str) : str[i] = "-"
    THEN SubSeq(str, 1, (CHOOSE i \in 1..Len(str) :
                            str[i] = "-" /\ \A j \in 1..(i - 1) : str[j] # "-") - 1)
    ELSE str

\* String.prototype.startsWith, String.prototype.includes
startsWith(str, prefix) ==
    Len(prefix) <= Len(str) /\ SubSeq(str, 1, Len(prefix)) = prefix

includes(str, sub) ==
    \E i \in 0..(Len(str) - Len(sub)) : SubSeq(str, i + 1, i + Len(sub)) = sub

\* The delivery modes the backend may list: { code, name }.
ModePool ==
    {[code |-> <<"s", "-", "g">>, name |-> <<"S", "t">>],
     [code |-> <<"p", "-", "g">>, name |-> <<"P", "r">>],
     [code |-> <<"S", "-", "n">>, name |-> <<"x">>],
     [code |-> <<"x">>, name |-> <<"a", "s", "b">>],
     [code |-> <<"p">>, name |-> <<"p">>]}

DeliveryModeLists == UNION {[1..k -> ModePool] : k \in 0..MaxModes}

\* No set-delivery-mode call has been made since the modes were stored.
NoCode == <<"?">>

\* deliveryModes.find(m => m.code.toLowerCase().startsWith(prefix) ||
\*                         m.name.toLowerCase().includes(prefix))
FuzzyMatches(modes, prefix) ==
    {i \in 1..Len(modes) :
        \/ startsWith(toLowerCase(modes[i].code), prefix)
        \/ includes(toLowerCase(modes[i].name), prefix)}

\* The first index of a non-empty set of indices (Array.prototype.find).
FirstOf(indices) == CHOOSE i \in indices : \A j \in indices : i <= j

\* The correction without the fuzzy step.
fixDeliveryModeCodeExactOnly(modes, requested) ==
    IF Len(modes) = 0
    THEN requested
    ELSE IF \E i \in 1..Len(modes) : modes[i].code = requested
         THEN requested
         ELSE modes[1].code

fixDeliveryModeCode(modes, requested) ==
    IF Len(modes) = 0
    THEN requested
    ELSE IF \E i \in 1..Len(modes) : modes[i].code = requested
         THEN requested
         ELSE IF FuzzyMatches(modes, SplitFirst(toLowerCase(requested))) # {}
              THEN modes[FirstOf(FuzzyMatches(modes, SplitFirst(toLowerCase(requested))))].code
              ELSE modes[1].code

FixInit ==
    /\ deliveryModes = <<>>
    /\ requestedCode = NoCode
    /\ correctedCode = NoCode

\* storeDeliveryModes: a get-delivery-modes payload replaces the
\* conversation's cached list.
StoreDeliveryModes(modes) ==
    /\ deliveryModes' = modes
    /\ requestedCode' = NoCode
    /\ correctedCode' = NoCode
    /\ UNCHANGED <<retryVars, cacheVars, healthVars, chatVars, routeVars, raceVars, rateVars, storeVars, cartVars, forceVars, syncVars, limitVars, tokenVars, gatewayVars>>

\* case 'set-delivery-mode': the code sent is fixDeliveryModeCode(requested).
SetDeliveryModeCase(requested) ==
    /\ requestedCode' = requested
    /\ correctedCode' = fixDeliveryModeCode(deliveryModes, requested)
    /\ UNCHANGED deliveryModes
    /\ UNCHANGED <<retryVars, cacheVars, healthVars, chatVars, routeVars, raceVars, rateVars, storeVars, cartVars, forceVars, syncVars, limitVars, tokenVars, gatewayVars>>

NextFix ==
    \/ \E modes \in DeliveryModeLists : StoreDeliveryModes(modes)
    \/ \E requested \in StringsUpTo(MaxCodeLength) : SetDeliveryModeCase(requested)

\* ------------------------------------------------------------------------
\* ConversationManager (the Session Store) with ChatService's checkout maps
\* ------------------------------------------------------------------------
StoreIds == 1..MaxStoreConversations

MessageRoles == {"system", "user"}

NotThrown == "none"
NotFound == "Conversation not found"

IdsOf(store) == {store[i].id : i \in 1..Len(store)}

Lookup(store, id) == CHOOSE i \in 1..Len(store) : store[i].id = id

RemoveIds(store, ids) == SelectSeq(store, LAMBDA c : c.id \notin ids)

\* A cleanup that deletes the most recently updated entries.
cleanupNewestConversations(store) ==
    IF Len(store) <= MAX_CONVERSATIONS
    THEN store
    ELSE LET After(j, i) ==
                 \/ store[j].updatedAt > store[i].updatedAt
                 \/ store[j].updatedAt = store[i].updatedAt /\ j > i
             Rank(i) == Cardinality({j \in 1..Len(store) : After(j, i)})
             toRemove == {store[i].id : i \in {k \in 1..Len(store) :
                                                  Rank(k) < Len(store) - MAX_CONVERSATIONS}}
         IN  RemoveIds(store, toRemove)

\* cleanupOldConversations: nothing at or under the ceiling; otherwise the
\* first size - MAX_CONVERSATIONS entries of the stable sort by updatedAt
\* are deleted.
cleanupOldConversations(store) ==
    IF Len(store) <= MAX_CONVERSATIONS
    THEN store
    ELSE LET Before(j, i) ==
                 \/ store[j].updatedAt < store[i].updatedAt
                 \/ store[j].updatedAt = store[i].updatedAt /\ j < i
             Rank(i) == Cardinality({j \in 1..Len(store) : Before(j, i)})
             toRemove == {store[i].id : i \in {k \in 1..Len(store) :
                                                  Rank(k) < Len(store) - MAX_CONVERSATIONS}}
         IN  RemoveIds(store, toRemove)

\* createConversation: a conversation with a fresh id and no messages is set
\* in the map, then cleanupOldConversations runs.
createConversation(store, id, t) ==
    cleanupOldConversations(
        Append(store, [id |-> id, messages |-> <<>>, updatedAt |-> t]))

\* An addMessage that creates the conversation it does not find.
addMessageOrCreate(store, id, message, t) ==
    IF id \notin IdsOf(store)
    THEN [store  |-> Append(store, [id |-> id, messages |-> <<message>>, updatedAt |-> t]),
          thrown |-> NotThrown]
    ELSE [store  |-> [store EXCEPT ![Lookup(store, id)] =
                         [addMessage(@, message) EXCEPT !.updatedAt = t]],
          thrown |-> NotThrown]

\* ConversationManager.addMessage by id: throws when the id is not in the
\* map; otherwise pushes, stamps updatedAt and prunes.
addMessageById(store, id, message, t) ==
    IF id \notin IdsOf(store)
    THEN [store |-> store, thrown |-> NotFound]
    ELSE [store  |-> [store EXCEPT ![Lookup(store, id)] =
                         [addMessage(@, message) EXCEPT !.updatedAt = t]],
          thrown |-> NotThrown]

\* A clear that deletes the conversation.
clearConversationDeleting(store, id, t) == RemoveIds(store, {id})

\* ConversationManager.clearConversation: a known conversation loses its
\* messages and stays in the map.
clearConversation(store, id, t) ==
    IF id \notin IdsOf(store)
    THEN store
    ELSE [store EXCEPT ![Lookup(store, id)] =
             [@ EXCEPT !.messages = <<>>, !.updatedAt = t]]

StoreInit ==
    /\ sessionStore = <<>>
    /\ storedCarts = {}
    /\ storedModes = {}
    /\ storedOrderCodes = {}
    /\ nextId = 1
    /\ storeClock = 0
    /\ appended = 0
    /\ storeOp = [op |-> "none", id |-> 0, thrown |-> NotThrown, removed |-> {}]

StoreFrame ==
    UNCHANGED <<retryVars, cacheVars, healthVars, chatVars, fixVars, routeVars, raceVars,
                rateVars, cartVars, forceVars, syncVars, limitVars, tokenVars, gatewayVars>>

\* A message without a conversationId: createConversation.
StoreCreate ==
    /\ nextId <= MaxStoreConversations
    /\ sessionStore' = createConversation(sessionStore, nextId, storeClock)
    /\ nextId' = nextId + 1
    /\ storeOp' = [op |-> "createConversation", id |-> nextId, thrown |-> NotThrown,
                   removed |-> (IdsOf(sessionStore) \cup {nextId}) \ IdsOf(sessionStore')]
    /\ UNCHANGED <<storedCarts, storedModes, storedOrderCodes, storeClock, appended>>
    /\ StoreFrame

\* addMessage with the id a caller names, while fewer than limit messages
\* have been appended.
StoreAddMessage(id, role, limit) ==
    /\ appended < limit
    /\ LET r == addMessageById(sessionStore, id,
                               [role |-> role, content |-> appended + 1], storeClock)
       IN  /\ sessionStore' = r.store
           /\ appended' = IF r.thrown = NotThrown THEN appended + 1 ELSE appended
           /\ storeOp' = [op |-> "addMessage", id |-> id, thrown |-> r.thrown, removed |-> {}]
    /\ UNCHANGED <<storedCarts, storedModes, storedOrderCodes, nextId, storeClock>>
    /\ StoreFrame

\* A turn of a known conversation stores checkout state: the cart id
\* (add-to-cart, create-cart), the delivery modes, or an order code seen in
\* the messages.
StoreCheckoutState(id, kind) ==
    /\ id \in IdsOf(sessionStore)
    /\ storedCarts' = IF kind = "cart" THEN storedCarts \cup {id} ELSE storedCarts
    /\ storedModes' = IF kind = "modes" THEN storedModes \cup {id} ELSE storedModes
    /\ storedOrderCodes' =
           IF kind = "orderCode" THEN storedOrderCodes \cup {id} ELSE storedOrderCodes
    /\ <<storedCarts', storedModes', storedOrderCodes'>> /=
           <<storedCarts, storedModes, storedOrderCodes>>
    /\ storeOp' = [op |-> "checkout", id |-> id, thrown |-> NotThrown, removed |-> {}]
    /\ UNCHANGED <<sessionStore, nextId, storeClock, appended>>
    /\ StoreFrame

\* ChatService.clearConversation (DELETE /conversations/:id).
StoreClear(id) ==
    /\ sessionStore' = clearConversation(sessionStore, id, storeClock)
    /\ storedCarts' = storedCarts \ {id}
    /\ storedModes' = storedModes \ {id}
    /\ storedOrderCodes' = storedOrderCodes \ {id}
    /\ storeOp' = [op |-> "clearConversation", id |-> id, thrown |-> NotThrown,
                   removed |-> {}]
    /\ UNCHANGED <<nextId, storeClock, appended>>
    /\ StoreFrame

\* ConversationManager.deleteConversation.
StoreDelete(id) ==
    /\ id \in IdsOf(sessionStore)
    /\ sessionStore' = RemoveIds(sessionStore, {id})
    /\ storeOp' = [op |-> "deleteConversation", id |-> id, thrown |-> NotThrown,
                   removed |-> {id}]
    /\ UNCHANGED <<storedCarts, storedModes, storedOrderCodes, nextId, storeClock, appended>>
    /\ StoreFrame

StoreTick ==
    /\ storeClock < MaxStoreClock
    /\ storeClock' = storeClock + 1
    /\ storeOp' = [op |-> "tick", id |-> 0, thrown |-> NotThrown, removed |-> {}]
    /\ UNCHANGED <<sessionStore, storedCarts, storedModes, storedOrderCodes, nextId,
                   appended>>
    /\ StoreFrame

NextStore ==
    \/ StoreCreate
    \/ \E id \in StoreIds, role \in MessageRoles :
           StoreAddMessage(id, role, MaxLifecycleAppends)
    \/ \E id \in StoreIds, kind \in {"cart", "modes", "orderCode"} :
           StoreCheckoutState(id, kind)
    \/ \E id \in StoreIds : StoreClear(id)
    \/ \E id \in StoreIds : StoreDelete(id)
    \/ StoreTick

\* Conversations are created and given messages only.
NextPrune ==
    \/ StoreCreate
    \/ \E id \in StoreIds, role \in MessageRoles : StoreAddMessage(id, role, MaxAppends)

\* ------------------------------------------------------------------------
\* executeMCPTools case 'add-to-cart' run by concurrent turns
\* ------------------------------------------------------------------------
Callers == 1..MaxCartCallers

\* The start of the case under a lock per conversation: no cart is created
\* while another caller of the conversation is creating one.
beginAddToCartSerialized(inputCartId, stored, creating) ==
    LET cartId == OrElse(inputCartId, stored)
    IN  [cartId |-> cartId, create |-> cartId = NoCart /\ ~creating]

\* let cartId = toolCall.input.cartId || this.cartsByConversation.get(conversationId);
\* if (!cartId) { ... await callTool('create-cart') ... }
beginAddToCart(inputCartId, stored, creating) ==
    LET cartId == OrElse(inputCartId, stored)
    IN  [cartId |-> cartId, create |-> cartId = NoCart]

CartInit ==
    /\ callerPc = [p \in Callers |-> "idle"]
    /\ callerConversation = [p \in Callers |-> "none"]
    /\ callerCartId = [p \in Callers |-> NoCart]
    /\ storedCartIds = [c \in ConversationIds |-> NoCart]
    /\ createCartCalls = <<>>
    /\ cartSets = <<>>
    /\ cartsIssued = 0

CartFrame ==
    UNCHANGED <<retryVars, cacheVars, healthVars, chatVars, fixVars, routeVars, raceVars,
                rateVars, storeVars, forceVars, syncVars, limitVars, tokenVars, gatewayVars>>

\* A turn of conversation c reaches case 'add-to-cart': the cart id is
\* resolved and, if there is none, create-cart is called and awaited;
\* otherwise add-to-cart is called and awaited.
AddToCartBegins(p, c, inputCartId) ==
    /\ callerPc[p] = "idle"
    /\ LET creating == \E q \in Callers :
                           callerPc[q] = "creating" /\ callerConversation[q] = c
           b == beginAddToCart(inputCartId, storedCartIds[c], creating)
       IN  /\ callerCartId' = [callerCartId EXCEPT ![p] = b.cartId]
           /\ callerPc' = [callerPc EXCEPT ![p] = IF b.create THEN "creating" ELSE "adding"]
           /\ createCartCalls' = IF b.create THEN Append(createCartCalls, c)
                                 ELSE createCartCalls
    /\ callerConversation' = [callerConversation EXCEPT ![p] = c]
    /\ UNCHANGED <<storedCartIds, cartSets, cartsIssued>>
    /\ CartFrame

\* create-cart answers with a new cart: its id is stored for the
\* conversation, then add-to-cart is called and awaited.
CreateCartReturns(p) ==
    /\ callerPc[p] = "creating"
    /\ cartsIssued' = cartsIssued + 1
    /\ callerCartId' = [callerCartId EXCEPT ![p] = cartsIssued + 1]
    /\ storedCartIds' = [storedCartIds EXCEPT ![callerConversation[p]] = cartsIssued + 1]
    /\ cartSets' = Append(cartSets, [conversationId |-> callerConversation[p],
                                     cartId         |-> cartsIssued + 1])
    /\ callerPc' = [callerPc EXCEPT ![p] = "adding"]
    /\ UNCHANGED <<callerConversation, createCartCalls>>
    /\ CartFrame

\* create-cart rejects, or answers without a cart id: the case throws.
CreateCartFails(p) ==
    /\ callerPc[p] = "creating"
    /\ callerPc' = [callerPc EXCEPT ![p] = "failed"]
    /\ UNCHANGED <<callerConversation, callerCartId, storedCartIds, createCartCalls,
                   cartSets, cartsIssued>>
    /\ CartFrame

\* add-to-cart answers.
AddToCartReturns(p) ==
    /\ callerPc[p] = "adding"
    /\ callerPc' = [callerPc EXCEPT ![p] = "done"]
    /\ UNCHANGED <<callerConversation, callerCartId, storedCartIds, createCartCalls,
                   cartSets, cartsIssued>>
    /\ CartFrame

NextCart ==
    \/ \E p \in Callers, c \in ConversationIds, inputCartId \in {NoCart} \cup 1..cartsIssued :
           AddToCartBegins(p, c, inputCartId)
    \/ \E p \in Callers : CreateCartReturns(p)
    \/ \E p \in Callers : CreateCartFails(p)
    \/ \E p \in Callers : AddToCartReturns(p)

\* ------------------------------------------------------------------------
\* handleChatMessage: order-code tracking and tool forcing
\* ------------------------------------------------------------------------
NoOrderCode == 0

OrderCodes == 1..MaxOrderCodes

\* msg.content.match(/\b(\d{8})\b/) per message: the code a message holds,
\* or none.
MessageCodes == {NoOrderCode} \cup OrderCodes

ToolChoiceAuto == [type |-> "auto", name |-> ""]

ToolChoiceOrderStatus == [type |-> "tool", name |-> "get-order-status"]

NoForceRequest ==
    [conversationId |-> "none", isAuthenticated |-> FALSE, isOrderInquiry |-> FALSE,
     orderCode |-> NoOrderCode]

\* The tracking loop over messages.slice(-5): every message that holds a
\* code sets lastOrderCodeByConversation, so the last one wins.
RECURSIVE TrackOrderCodes(_, _)
TrackOrderCodes(tracked, codes) ==
    IF codes = <<>> THEN tracked
    ELSE TrackOrderCodes(IF Head(codes) # NoOrderCode THEN Head(codes) ELSE tracked,
                         Tail(codes))

\* currentMessageOrderCode?.[1] || lastOrderCode
OrderCodeToUse(currentMessageOrderCode, lastOrderCode) ==
    IF currentMessageOrderCode # NoOrderCode THEN currentMessageOrderCode ELSE lastOrderCode

\* The directive chosen at lines 184-211.
ChooseToolChoice(authenticated, isOrderInquiry, code) ==
    IF authenticated /\ isOrderInquiry /\ code # NoOrderCode
    THEN ToolChoiceOrderStatus
    ELSE ToolChoiceAuto

ForceInit ==
    /\ codesInMessages = [c \in ConversationIds |-> <<>>]
    /\ lastOrderCodeByConversation = [c \in ConversationIds |-> NoOrderCode]
    /\ forcePc = "idle"
    /\ forceRequest = NoForceRequest
    /\ toolChoice = ToolChoiceAuto
    /\ orderCodeToUse = NoOrderCode
    /\ requestedOrderCode = NoOrderCode
    /\ forceTurns = 0

ForceFrame ==
    UNCHANGED <<retryVars, cacheVars, healthVars, chatVars, fixVars, routeVars, raceVars,
                rateVars, storeVars, cartVars, syncVars, limitVars, tokenVars, gatewayVars>>

\* A turn up to its first provider call: the user message is added, the
\* order codes of the recent messages are tracked, and the directive is
\* chosen.
ForceTurnBegins(c, authenticated, isOrderInquiry, code) ==
    /\ forcePc = "idle"
    /\ forceTurns < MaxForceTurns
    /\ forceTurns' = forceTurns + 1
    /\ LET messages == Append(codesInMessages[c], code)
           tracked  == TrackOrderCodes(lastOrderCodeByConversation[c],
                                       Slice(messages, 0 - RecentMessages))
           use      == OrderCodeToUse(code, tracked)
       IN  /\ codesInMessages' = [codesInMessages EXCEPT ![c] = messages]
           /\ lastOrderCodeByConversation' =
                  [lastOrderCodeByConversation EXCEPT ![c] = tracked]
           /\ orderCodeToUse' =
                  IF authenticated /\ isOrderInquiry THEN use ELSE NoOrderCode
           /\ toolChoice' = ChooseToolChoice(authenticated, isOrderInquiry, use)
    /\ forceRequest' = [conversationId |-> c, isAuthenticated |-> authenticated,
                        isOrderInquiry |-> isOrderInquiry, orderCode |-> code]
    /\ forcePc' = "awaiting"
    /\ requestedOrderCode' = NoOrderCode
    /\ ForceFrame

\* The provider answers with a get-order-status tool call; the order code of
\* the call is the one the provider puts in its input, and the call is
\* executed with it. The reply that ends the turn may hold a code.
ProviderCallsOrderStatus(inputOrderCode, replyCode) ==
    /\ forcePc = "awaiting"
    /\ forceRequest.isAuthenticated
    /\ requestedOrderCode' = inputOrderCode
    /\ codesInMessages' =
           [codesInMessages EXCEPT ![forceRequest.conversationId] = Append(@, replyCode)]
    /\ forcePc' = "idle"
    /\ UNCHANGED <<lastOrderCodeByConversation, forceRequest, toolChoice, orderCodeToUse,
                   forceTurns>>
    /\ ForceFrame

\* The provider answers with text; possible only when the tool choice was
\* left open.
ProviderRepliesText(replyCode) ==
    /\ forcePc = "awaiting"
    /\ toolChoice = ToolChoiceAuto
    /\ codesInMessages' =
           [codesInMessages EXCEPT ![forceRequest.conversationId] = Append(@, replyCode)]
    /\ forcePc' = "idle"
    /\ UNCHANGED <<lastOrderCodeByConversation, forceRequest, toolChoice, orderCodeToUse,
                   requestedOrderCode, forceTurns>>
    /\ ForceFrame

NextForce ==
    \/ \E c \in ConversationIds, authenticated \in BOOLEAN, isOrderInquiry \in BOOLEAN,
          code \in MessageCodes :
           ForceTurnBegins(c, authenticated, isOrderInquiry, code)
    \/ \E inputOrderCode \in OrderCodes, replyCode \in MessageCodes :
           ProviderCallsOrderStatus(inputOrderCode, replyCode)
    \/ \E replyCode \in MessageCodes : ProviderRepliesText(replyCode)

\* ------------------------------------------------------------------------
\* add-to-cart end to end: the bridge's case and the tool server's handler
\* ------------------------------------------------------------------------
\* The tool server's add-to-cart handler on cartId: getCart then addToCart;
\* if either throws, createCart and addToCart on the new cart. The answers
\* of the backend are inputs; getCart fails on a cart the backend lacks.
\* Returns the backend's carts, the ids issued, the cart the product went to
\* (NoCart if none) and the result.
AddToCartHandler(cartId, carts, issued, getOk, addOk, createOk, addNewOk) ==
    IF cartId \in carts /\ getOk /\ addOk
    THEN [carts |-> carts, issued |-> issued, modified |-> cartId, result |-> "ok"]
    ELSE IF ~createOk
         THEN [carts |-> carts, issued |-> issued, modified |-> NoCart, result |-> "error"]
         ELSE IF addNewOk
              THEN [carts |-> carts \cup {issued + 1}, issued |-> issued + 1,
                    modified |-> issued + 1, result |-> "ok"]
              ELSE [carts |-> carts \cup {issued + 1}, issued |-> issued + 1,
                    modified |-> NoCart, result |-> "error"]

SyncInit ==
    /\ bridgeCartId = NoCart
    /\ backendCarts = {}
    /\ backendIssued = 0
    /\ modifiedCart = NoCart
    /\ syncResult = "none"
    /\ syncCalls = 0

SyncFrame ==
    UNCHANGED <<retryVars, cacheVars, healthVars, chatVars, fixVars, routeVars, raceVars,
                rateVars, storeVars, cartVars, forceVars, limitVars, tokenVars, gatewayVars>>

\* An add-to-cart tool call of the conversation: the bridge resolves the
\* cart id, creates and stores a cart if there is none, and calls the tool
\* server's add-to-cart with it; the result is pushed as it comes.
SyncAddToCart(inputCartId, bridgeCreateOk, getOk, addOk, createOk, addNewOk) ==
    /\ syncCalls < MaxSyncCalls
    /\ backendIssued + 2 <= MaxBackendCarts
    /\ syncCalls' = syncCalls + 1
    /\ LET resolved == OrElse(inputCartId, bridgeCartId) IN
       IF resolved = NoCart /\ ~bridgeCreateOk
       THEN \* create-cart failed: the case throws
            /\ syncResult' = "error"
            /\ UNCHANGED <<bridgeCartId, backendCarts, backendIssued, modifiedCart>>
       ELSE LET created == resolved = NoCart
                cartId  == IF created THEN backendIssued + 1 ELSE resolved
                carts   == IF created THEN backendCarts \cup {cartId} ELSE backendCarts
                issued  == IF created THEN backendIssued + 1 ELSE backendIssued
                h       == AddToCartHandler(cartId, carts, issued,
                                            getOk, addOk, createOk, addNewOk)
            IN  /\ bridgeCartId' = IF created THEN cartId ELSE bridgeCartId
                /\ backendCarts' = h.carts
                /\ backendIssued' = h.issued
                /\ modifiedCart' = IF h.result = "ok" THEN h.modified ELSE modifiedCart
                /\ syncResult' = h.result
    /\ SyncFrame

\* A place-order tool call: the order is placed on input.cartId or the
\* stored cart id; a placed order consumes the backend cart; the stored
\* cart id is deleted whenever a cart id was sent.
SyncPlaceOrder(inputCartId, orderOk) ==
    /\ syncCalls < MaxSyncCalls
    /\ syncCalls' = syncCalls + 1
    /\ LET orderCartId == OrElse(inputCartId, bridgeCartId)
           placed      == orderOk /\ orderCartId \in backendCarts
       IN  /\ backendCarts' = IF placed THEN backendCarts \ {orderCartId} ELSE backendCarts
           /\ bridgeCartId' = IF orderCartId # NoCart THEN NoCart ELSE bridgeCartId
           /\ syncResult' = IF placed THEN "ok" ELSE "error"
           /\ modifiedCart' = IF placed THEN NoCart ELSE modifiedCart
    /\ UNCHANGED backendIssued
    /\ SyncFrame

NextSync ==
    \/ \E inputCartId \in {NoCart} \cup 1..backendIssued,
          bridgeCreateOk, getOk, addOk, createOk, addNewOk \in BOOLEAN :
           SyncAddToCart(inputCartId, bridgeCreateOk, getOk, addOk, createOk, addNewOk)
    \/ \E inputCartId \in {NoCart} \cup 1..backendIssued, orderOk \in BOOLEAN :
           SyncPlaceOrder(inputCartId, orderOk)

\* ---- claims about fixDeliveryModeCode

\* A set-delivery-mode call has been made against a non-empty cached list.
CodeSentWithCachedModes == requestedCode # NoCode /\ Len(deliveryModes) > 0

ExactlyCached == \E i \in 1..Len(deliveryModes) : deliveryModes[i].code = requestedCode

\* The three rules, with the given matching of a mode against the token.
ResolvesByRules(Matches(_)) ==
    /\ ExactlyCached => correctedCode = requestedCode
    /\ (~ExactlyCached /\ \E i \in 1..Len(deliveryModes) : Matches(i)) =>
            \E i \in 1..Len(deliveryModes) :
                /\ Matches(i)
                /\ \A j \in 1..(i - 1) : ~Matches(j)
                /\ correctedCode = deliveryModes[i].code
    /\ (~ExactlyCached /\ \A i \in 1..Len(deliveryModes) : ~Matches(i)) =>
            correctedCode = deliveryModes[1].code

\* C11 (as claimed): the code sent is the requested code when it is cached;
\* else the code of the first cached mode whose code starts with, or whose
\* name contains, the token before the first '-' of the requested code;
\* else the code of the first cached mode.
C11_FuzzyAsWritten ==
    CodeSentWithCachedModes =>
        LET token == SplitFirst(requestedCode)
            Matches(i) == \/ startsWith(deliveryModes[i].code, token)
                          \/ includes(deliveryModes[i].name, token)
        IN  ResolvesByRules(Matches)

\* C11 (amended): as claimed, with the fuzzy step comparing without regard
\* to case: the token is taken from the lower-cased requested code and is
\* matched against the lower-cased codes and names.
C11_FuzzyIgnoringCase ==
    CodeSentWithCachedModes =>
        LET token == SplitFirst(toLowerCase(requestedCode))
            Matches(i) == \/ startsWith(toLowerCase(deliveryModes[i].code), token)
                          \/ includes(toLowerCase(deliveryModes[i].name), token)
        IN  ResolvesByRules(Matches)

\* C11 witness: cached [s-g, p-g] and requested s-n resolved to s-g by the
\* fuzzy step (standard-net to standard-gross).
C11_Witness ==
    /\ Len(deliveryModes) = 2
    /\ deliveryModes[1].code = <<"s", "-", "g">>
    /\ deliveryModes[2].code = <<"p", "-", "g">>
    /\ requestedCode = <<"s", "-", "n">>
    /\ correctedCode = <<"s", "-", "g">>

\* ======================================================================
\* POST /api/chat/message: the guardrail middleware and the route handler
\* ======================================================================
\* userId || 'anonymous'
Users == {"anonymous", "u1"}

\* What the checks read of a message: its length and which patterns its
\* text matches.
\*   commerce         a commerce keyword, a greeting or a question word
\*   neutral          none of the patterns
\*   blocked          one of config.blockedPatterns
\*   injection        one of the prompt-injection patterns only
\*   offTopic         an off-topic pattern, no keyword, greeting or question word
\*   offTopicQuestion an off-topic pattern together with a question word
ContentClasses == {"commerce", "neutral", "blocked", "injection", "offTopic", "offTopicQuestion"}

\* request.message is absent from the body.
MissingMessage == [length |-> 0, class |-> "missing"]

EmptyMessage == [length |-> 0, class |-> "neutral"]

Messages ==
    {MissingMessage, EmptyMessage}
        \cup [length : {maxMessageLength}, class : ContentClasses]
        \cup [length : {maxMessageLength + 1}, class : {"commerce", "blocked"}]

\* req.body.conversationId: absent, an id the user's set already holds, or
\* one it does not hold yet.
ConversationIdKinds == {"none", "known", "fresh"}

NoRateLimit == [count |-> 0, resetTime |-> 0]

NoHttpResponse == [status |-> 0, error |-> "none", reason |-> "none"]

NoSpies == [sessionAppend |-> FALSE, providerCall |-> FALSE, toolExecution |-> FALSE]

Valid == [valid |-> TRUE, reason |-> "none"]

Invalid(reason) == [valid |-> FALSE, reason |-> reason]

\* validateMessageContent without its length check.
validateMessageContentNoLength(message) ==
    IF message.class = "blocked"
    THEN Invalid("Message contains prohibited content")
    ELSE IF message.class = "injection"
         THEN Invalid("Potential prompt injection detected")
         ELSE Valid

validateMessageContent(message) ==
    IF message.length > maxMessageLength
    THEN Invalid("Message exceeds maximum length")
    ELSE IF message.class = "blocked"
         THEN Invalid("Message contains prohibited content")
         ELSE IF message.class = "injection"
              THEN Invalid("Potential prompt injection detected")
              ELSE Valid

\* checkRateLimit: the verdict and the store it leaves. (First, the check
\* that rejects only above the ceiling.)
RateLimitExpired(limit, t) == limit = NoRateLimit \/ t > limit.resetTime

checkRateLimitAboveCeiling(store, userKey, t) ==
    IF RateLimitExpired(store[userKey], t)
    THEN [allowed |-> TRUE,
          store |-> [store EXCEPT ![userKey] = [count |-> 1, resetTime |-> t + RateWindow]]]
    ELSE IF store[userKey].count > maxMessagesPerMinute
         THEN [allowed |-> FALSE, store |-> store]
         ELSE [allowed |-> TRUE, store |-> [store EXCEPT ![userKey].count = @ + 1]]

checkRateLimit(store, userKey, t) ==
    IF RateLimitExpired(store[userKey], t)
    THEN [allowed |-> TRUE,
          store |-> [store EXCEPT ![userKey] = [count |-> 1, resetTime |-> t + RateWindow]]]
    ELSE IF store[userKey].count >= maxMessagesPerMinute
         THEN [allowed |-> FALSE, store |-> store]
         ELSE [allowed |-> TRUE, store |-> [store EXCEPT ![userKey].count = @ + 1]]

\* checkConversationLimit: the verdict and the size of the user's set of
\* conversation ids it leaves.
checkConversationLimitAboveCeiling(store, userKey, idKind) ==
    IF idKind = "none"
    THEN [allowed |-> store[userKey] <= maxConversationsPerUser, store |-> store]
    ELSE [allowed |-> TRUE,
          store |-> IF idKind = "fresh" THEN [store EXCEPT ![userKey] = @ + 1] ELSE store]

checkConversationLimit(store, userKey, idKind) ==
    IF idKind = "none"
    THEN [allowed |-> store[userKey] < maxConversationsPerUser, store |-> store]
    ELSE [allowed |-> TRUE,
          store |-> IF idKind = "fresh" THEN [store EXCEPT ![userKey] = @ + 1] ELSE store]

validateTopic(message) ==
    IF message.class = "offTopic"
    THEN Invalid("This assistant is focused on helping with product inquiries and orders")
    ELSE Valid

\* res.status(...).json({ error, reason })
HttpResponse(code, error, reason) == [status |-> code, error |-> error, reason |-> reason]

\* How handleChatMessage ends, as the route sees it.
\*   replied         it returned a ChatResponse
\*   providerFailed  the provider call threw (the user message was appended)
\*   notFound        addMessage threw on an unknown conversation id
TurnOutcomes == {"replied", "providerFailed", "notFound"}

RouteInit ==
    /\ rateLimitStore = [u \in Users |-> NoRateLimit]
    /\ conversationStore = [u \in Users |-> 0]
    /\ clock = 0
    /\ request = [message |-> MissingMessage, userKey |-> "anonymous", conversationId |-> "none"]
    /\ httpResponse = NoHttpResponse
    /\ spies = NoSpies

\* The middleware returned by createGuardrailMiddleware: the four checks in
\* order, the first failing one answers the request.
GuardrailMiddleware(message, userKey, idKind, rateStore, convStore, t) ==
    LET contentCheck == validateMessageContent(message)
        rateLimitCheck == checkRateLimit(rateStore, userKey, t)
        conversationCheck == checkConversationLimit(convStore, userKey, idKind)
        topicCheck == validateTopic(message)
    IN  IF ~contentCheck.valid
        THEN [next |-> FALSE,
              response |-> HttpResponse(400, "Invalid message", contentCheck.reason),
              rateLimitStore |-> rateStore, conversationStore |-> convStore]
        ELSE IF ~rateLimitCheck.allowed
             THEN [next |-> FALSE,
                   response |-> HttpResponse(429, "Rate limit exceeded", "Rate limit exceeded"),
                   rateLimitStore |-> rateLimitCheck.store, conversationStore |-> convStore]
             ELSE IF ~conversationCheck.allowed
                  THEN [next |-> FALSE,
                        response |-> HttpResponse(429, "Conversation limit exceeded",
                                                  "Maximum concurrent conversations reached"),
                        rateLimitStore |-> rateLimitCheck.store,
                        conversationStore |-> conversationCheck.store]
                  ELSE IF ~topicCheck.valid
                       THEN [next |-> FALSE,
                             response |-> HttpResponse(400, "Off-topic message", topicCheck.reason),
                             rateLimitStore |-> rateLimitCheck.store,
                             conversationStore |-> conversationCheck.store]
                       ELSE [next |-> TRUE,
                             response |-> NoHttpResponse,
                             rateLimitStore |-> rateLimitCheck.store,
                             conversationStore |-> conversationCheck.store]

\* The route handler behind the middleware.
MessageHandler(message, outcome, ranTools) ==
    IF message.length = 0
    THEN [response |-> HttpResponse(400, "Message is required", "none"), spies |-> NoSpies]
    ELSE IF outcome = "notFound"
         THEN [response |-> HttpResponse(500, "Internal server error", "none"), spies |-> NoSpies]
         ELSE [response |-> IF outcome = "replied"
                            THEN HttpResponse(200, "none", "none")
                            ELSE HttpResponse(500, "Internal server error", "none"),
               spies |-> [sessionAppend |-> TRUE, providerCall |-> TRUE,
                          toolExecution |-> ranTools]]

\* One POST /api/chat/message, from the middleware to the response.  A body
\* without a message makes message.length throw inside the async middleware:
\* the request is left unanswered, or answered 500 by the framework's error
\* handler where it catches rejected promises.
PostMessage ==
    \E message \in Messages, userKey \in Users, idKind \in ConversationIdKinds :
        /\ idKind = "known" => conversationStore[userKey] > 0
        /\ idKind = "fresh" => conversationStore[userKey] < MaxKnownConversations
        /\ request' = [message |-> message, userKey |-> userKey, conversationId |-> idKind]
        /\ IF message = MissingMessage
           THEN /\ \E crash \in {0, 500} : httpResponse' = HttpResponse(crash, "none", "none")
                /\ spies' = NoSpies
                /\ UNCHANGED <<rateLimitStore, conversationStore>>
           ELSE LET guard == GuardrailMiddleware(message, userKey, idKind,
                                                 rateLimitStore, conversationStore, clock)
                IN  /\ rateLimitStore' = guard.rateLimitStore
                    /\ conversationStore' = guard.conversationStore
                    /\ IF guard.next
                       THEN \E outcome \in TurnOutcomes, ranTools \in BOOLEAN :
                                /\ outcome = "notFound" => idKind # "none" /\ ~ranTools
                                /\ httpResponse' = MessageHandler(message, outcome, ranTools).response
                                /\ spies' = MessageHandler(message, outcome, ranTools).spies
                       ELSE /\ httpResponse' = guard.response
                            /\ spies' = NoSpies
        /\ UNCHANGED clock
        /\ UNCHANGED <<retryVars, cacheVars, healthVars, chatVars, fixVars, raceVars, rateVars, storeVars, cartVars, forceVars, syncVars, limitVars, tokenVars, gatewayVars>>

\* Date.now() advances.
RouteTick ==
    /\ clock < MaxClock
    /\ clock' = clock + 1
    /\ UNCHANGED <<rateLimitStore, conversationStore, request, httpResponse, spies>>
    /\ UNCHANGED <<retryVars, cacheVars, healthVars, chatVars, fixVars, raceVars, rateVars, storeVars, cartVars, forceVars, syncVars, limitVars, tokenVars, gatewayVars>>

NextRoute ==
    \/ PostMessage
    \/ RouteTick

GuardrailErrors ==
    {"Invalid message", "Rate limit exceeded", "Conversation limit exceeded", "Off-topic message"}

\* C12: a message rejected by an inbound guardrail check (one over the length
\* limit in particular) is answered with a 4xx response that carries a
\* reason, and the request appends nothing to a session, calls no provider
\* and executes no tool.
C12_RejectedMessageNotProcessed ==
    /\ request.message.length > maxMessageLength
        => /\ httpResponse.status = 400
           /\ httpResponse.reason = "Message exceeds maximum length"
           /\ spies = NoSpies
    /\ request.message.class \in {"blocked", "injection", "offTopic"}
        => /\ httpResponse.status \in 400..499
           /\ httpResponse.reason # "none"
           /\ spies = NoSpies
    /\ httpResponse.error \in GuardrailErrors
        => /\ httpResponse.status \in 400..499
           /\ httpResponse.reason # "none"
           /\ spies = NoSpies

\* An over-length message was rejected after the same user had a message
\* processed in the current rate window.
C12_Witness ==
    /\ request.message.length > maxMessageLength
    /\ request.message.class = "commerce"
    /\ httpResponse.status = 400
    /\ rateLimitStore[request.userKey].count > 0

\* ======================================================================
\* Requests in flight at once: handleChatMessage across its awaits
\* ======================================================================
Requests == 1..MaxInFlight

RaceInit ==
    /\ raceHistory = [c \in ConversationIds |-> <<>>]
    /\ racePc = [r \in Requests |-> "pending"]
    /\ raceTarget = [r \in Requests |-> "none"]

\* conversation.messages after ConversationManager.addMessage
Pushed(messages, message) == addMessage([exists |-> TRUE, messages |-> messages], message).messages

\* A request for conversation c arrives: handleChatMessage runs up to its
\* first await, appending the user message. Requests are numbered in the
\* order they arrive.
RequestArrives(r, c) ==
    /\ racePc[r] = "pending"
    /\ r > 1 => racePc[r - 1] # "pending"
    /\ raceHistory' = [raceHistory EXCEPT ![c] = Pushed(@, [request |-> r, role |-> "user"])]
    /\ racePc' = [racePc EXCEPT ![r] = "awaiting"]
    /\ raceTarget' = [raceTarget EXCEPT ![r] = c]
    /\ UNCHANGED <<retryVars, cacheVars, healthVars, chatVars, fixVars, routeVars, rateVars, storeVars, cartVars, forceVars, syncVars, limitVars, tokenVars, gatewayVars>>

\* The awaited provider and tool calls of request r have resolved: the
\* assistant message is appended and the response returned.
RequestReplies(r) ==
    /\ racePc[r] = "awaiting"
    /\ raceHistory' = [raceHistory EXCEPT ![raceTarget[r]] =
                            Pushed(@, [request |-> r, role |-> "assistant"])]
    /\ racePc' = [racePc EXCEPT ![r] = "replied"]
    /\ UNCHANGED raceTarget
    /\ UNCHANGED <<retryVars, cacheVars, healthVars, chatVars, fixVars, routeVars, rateVars, storeVars, cartVars, forceVars, syncVars, limitVars, tokenVars, gatewayVars>>

\* A provider call of request r rejected: nothing more is appended.
RequestFails(r) ==
    /\ racePc[r] = "awaiting"
    /\ racePc' = [racePc EXCEPT ![r] = "failed"]
    /\ UNCHANGED <<raceHistory, raceTarget>>
    /\ UNCHANGED <<retryVars, cacheVars, healthVars, chatVars, fixVars, routeVars, rateVars, storeVars, cartVars, forceVars, syncVars, limitVars, tokenVars, gatewayVars>>

NextRace ==
    \/ \E r \in Requests, c \in ConversationIds : RequestArrives(r, c)
    \/ \E r \in Requests : RequestReplies(r)
    \/ \E r \in Requests : RequestFails(r)

\* C15 (as claimed): in the history of a conversation the messages of one
\* turn are never separated by a message of another turn, and the turns
\* follow each other in arrival order, also while two requests for the
\* conversation are in flight at once.
C15_TurnsDoNotInterleave ==
    \A c \in ConversationIds :
        /\ \A i, j, k \in 1..Len(raceHistory[c]) :
                (i < j /\ j < k /\ raceHistory[c][i].request = raceHistory[c][k].request)
                    => raceHistory[c][j].request = raceHistory[c][i].request
        /\ \A i, j \in 1..Len(raceHistory[c]) :
                i < j => raceHistory[c][i].request <= raceHistory[c][j].request

\* ------------------------------------------------------------------------
\* Conversations created through the guarded message endpoint
\* ------------------------------------------------------------------------
\* SapCommerceClient.getAuthToken (client credentials configured)
\* ------------------------------------------------------------------------
\* The token of the field carries the time it was obtained at for the
\* properties only: the code stores response.data and no time.
NoToken == [id |-> 0, expires_in |-> 0, obtainedAt |-> 0]

\* tokenExpiration = new Date().getTime() + expires_in * 1000 - bufferTime;
\* the cached token is returned if tokenExpiration > new Date().getTime().
CachedTokenValid(token, t) ==
    LET tokenExpiration == t + token.expires_in - BufferTime
    IN  tokenExpiration > t

TokenInit ==
    /\ authToken = NoToken
    /\ tokenClock = 0
    /\ tokenRequests = 0
    /\ tokenOp = [returned |-> 0, requested |-> FALSE, at |-> 0]

TokenFrame ==
    UNCHANGED <<retryVars, cacheVars, healthVars, chatVars, fixVars, routeVars, raceVars,
                rateVars, storeVars, cartVars, forceVars, syncVars, limitVars, gatewayVars>>

\* getAuthToken(): the cached token if the check passes; otherwise a token
\* request, whose answer (after the retries) is a token with some lifetime
\* or a failure, in which case null is returned and the field is kept.
GetAuthToken(expires_in, answered) ==
    /\ tokenRequests < MaxTokenRequests
    /\ IF authToken # NoToken /\ CachedTokenValid(authToken, tokenClock)
       THEN /\ tokenOp' = [returned |-> authToken.id, requested |-> FALSE, at |-> tokenClock]
            /\ UNCHANGED <<authToken, tokenRequests>>
       ELSE IF answered
            THEN /\ authToken' = [id |-> tokenRequests + 1, expires_in |-> expires_in,
                                  obtainedAt |-> tokenClock]
                 /\ tokenRequests' = tokenRequests + 1
                 /\ tokenOp' = [returned |-> tokenRequests + 1, requested |-> TRUE,
                                at |-> tokenClock]
            ELSE /\ tokenOp' = [returned |-> 0, requested |-> TRUE, at |-> tokenClock]
                 /\ UNCHANGED <<authToken, tokenRequests>>
    /\ UNCHANGED tokenClock
    /\ TokenFrame

TokenTick ==
    /\ tokenClock < MaxTokenClock
    /\ tokenClock' = tokenClock + 1
    /\ UNCHANGED <<authToken, tokenRequests, tokenOp>>
    /\ TokenFrame

NextToken ==
    \/ \E expires_in \in 1..MaxExpiresIn, answered \in BOOLEAN :
           GetAuthToken(expires_in, answered)
    \/ TokenTick

\* ------------------------------------------------------------------------
\* SapCommerceService: withCache, the health interceptor, user-token clients
\* ------------------------------------------------------------------------
\* A result of a backend operation that is falsy in JavaScript.
FalsyResult == ""

GatewayResults == {"a", FalsyResult}

GatewayLatencies == {45, 120}

\* if (cached)
Truthy(value) == value # Undefined /\ value # FalsyResult

\* this.cache.get(cacheKey): the value, or undefined for a missing or an
\* expired entry (which is deleted).
GetFromCache(entries, key, t) ==
    IF ~HasKey(entries, key)
    THEN [ret |-> Undefined, entries |-> entries]
    ELSE IF IsExpired(t, EntryOf(entries, key))
         THEN [ret |-> Undefined, entries |-> MapDelete(entries, key)]
         ELSE [ret |-> EntryOf(entries, key).value, entries |-> entries]

\* this.cache.set(cacheKey, result)
SetInCache(entries, key, value, t) ==
    MapSet(IF Len(entries) >= maxSize
           THEN MapDelete(entries, OldestEntry(entries).key)
           ELSE entries,
           [key |-> key, value |-> value, expiresAt |-> t + ttl])

\* A lookup that reports no hit for a value found in the cache.
withCacheLookupUnreported(entries, key, t) ==
    LET got == GetFromCache(entries, key, t)
    IN  [hit |-> FALSE, invoke |-> ~Truthy(got.ret), ret |-> got.ret,
         entries |-> got.entries]

\* withCache up to the operation: the lookup, whether a hit is recorded
\* (otherwise a miss is), and whether the operation is invoked.
withCacheLookup(entries, key, t) ==
    LET got == GetFromCache(entries, key, t)
    IN  [hit |-> Truthy(got.ret), invoke |-> ~Truthy(got.ret), ret |-> got.ret,
         entries |-> got.entries]

\* The response interceptor the constructor of SapCommerceService registers
\* is on the default client only: getAxiosClient(userAccessToken) creates a
\* new instance with its own logging interceptors.
HealthIntercepted(userAccessToken) == ~userAccessToken

GatewayInit ==
    /\ gatewayRequests = 0
    /\ gatewayLookups = 0
    /\ gatewayOp = [op |-> "none", key |-> "none", ret |-> Undefined, hit |-> FALSE,
                    invoked |-> FALSE, requests |-> 0, failed |-> 0, latency |-> Absent,
                    userAccessToken |-> FALSE]

GatewayFrame ==
    UNCHANGED <<retryVars, chatVars, fixVars, routeVars, raceVars, rateVars, storeVars,
                cartVars, forceVars, syncVars, limitVars, tokenVars>>

\* A cacheable operation (searchProducts, getProductDetails, getCountries,
\* getRegions): withCache around an operation on the default client. The
\* operation makes failed attempts and then succeeds with a result, or
\* fails altogether; every attempt is a backend request.
CacheableOperation(key, failed, ok, result, latencyMs) ==
    /\ gatewayLookups < MaxGatewayLookups
    /\ gatewayRequests + MaxFailedAttempts + 1 <= MaxGatewayRequests
    /\ LET look     == withCacheLookup(cache, key, now)
           requests == IF ok THEN failed + 1 ELSE MaxFailedAttempts + 1
           errors   == IF ok THEN failed ELSE MaxFailedAttempts + 1
       IN  /\ cacheHits' = IF look.hit THEN cacheHits + 1 ELSE cacheHits
           /\ cacheMisses' = IF look.hit THEN cacheMisses ELSE cacheMisses + 1
           /\ gatewayLookups' = gatewayLookups + 1
           /\ IF look.invoke
              THEN /\ gatewayRequests' = gatewayRequests + requests
                   /\ requestCount' = requestCount + requests
                   /\ errorCount' = errorCount + errors
                   /\ status' = [status EXCEPT !.apiLatency = latencyMs]
                   /\ cache' = IF ok THEN SetInCache(look.entries, key, result, now)
                               ELSE look.entries
                   /\ gatewayOp' = [op |-> "cacheable", key |-> key,
                                    ret |-> IF ok THEN result ELSE "thrown",
                                    hit |-> FALSE, invoked |-> TRUE,
                                    requests |-> requests, failed |-> errors,
                                    latency |-> latencyMs, userAccessToken |-> FALSE]
              ELSE /\ cache' = look.entries
                   /\ gatewayOp' = [op |-> "cacheable", key |-> key, ret |-> look.ret,
                                    hit |-> TRUE, invoked |-> FALSE, requests |-> 0, failed |-> 0, latency |-> Absent,
                                    userAccessToken |-> FALSE]
                   /\ UNCHANGED <<gatewayRequests, requestCount, errorCount, status>>
    /\ UNCHANGED <<now, cacheOp>>
    /\ GatewayFrame

\* A cart, checkout or order operation: one backend request through
\* getAxiosClient(userAccessToken), with or without a caller access token;
\* no cache is involved.
CartOrOrderOperation(userAccessToken, ok, latencyMs) ==
    /\ gatewayRequests < MaxGatewayRequests
    /\ gatewayRequests' = gatewayRequests + 1
    /\ IF HealthIntercepted(userAccessToken)
       THEN /\ requestCount' = requestCount + 1
            /\ errorCount' = IF ok THEN errorCount ELSE errorCount + 1
            /\ status' = [status EXCEPT !.apiLatency = latencyMs]
       ELSE UNCHANGED <<requestCount, errorCount, status>>
    /\ gatewayOp' = [op |-> "mutation", key |-> "none",
                     ret |-> IF ok THEN "a" ELSE "thrown",
                     hit |-> FALSE, invoked |-> TRUE, requests |-> 1,
                     failed |-> IF ok THEN 0 ELSE 1, latency |-> latencyMs,
                     userAccessToken |-> userAccessToken]
    /\ UNCHANGED <<cacheHits, cacheMisses, gatewayLookups>>
    /\ UNCHANGED cacheVars
    /\ GatewayFrame

\* Date.now() moves on.
GatewayTick ==
    /\ now < MaxTime
    /\ now' = now + 1
    /\ UNCHANGED <<cache, cacheOp, healthVars, gatewayVars>>
    /\ GatewayFrame

NextGateway ==
    \/ \E key \in {"k1", "k2"}, failed \in 0..MaxFailedAttempts, ok \in BOOLEAN,
          result \in GatewayResults, latencyMs \in GatewayLatencies :
           CacheableOperation(key, failed, ok, result, latencyMs)
    \/ \E userAccessToken \in BOOLEAN, ok \in BOOLEAN, latencyMs \in GatewayLatencies :
           CartOrOrderOperation(userAccessToken, ok, latencyMs)
    \/ GatewayTick

\* ------------------------------------------------------------------------
LimitInit == createdFor = [u \in Users |-> 0]

\* POST /message with a well-formed message: the guardrail middleware runs,
\* and behind it handleChatMessage creates a conversation when the request
\* names none.
GuardedMessage(userKey, idKind, class) ==
    /\ createdFor[userKey] < MaxCreated
    /\ idKind = "known" => conversationStore[userKey] > 0
    /\ idKind = "fresh" => conversationStore[userKey] < MaxKnownConversations
    /\ LET guard == GuardrailMiddleware([length |-> maxMessageLength, class |-> class],
                                        userKey, idKind, rateLimitStore,
                                        conversationStore, clock)
       IN  /\ rateLimitStore' = guard.rateLimitStore
           /\ conversationStore' = guard.conversationStore
           /\ createdFor' = IF guard.next /\ idKind = "none"
                            THEN [createdFor EXCEPT ![userKey] = @ + 1]
                            ELSE createdFor
    /\ UNCHANGED <<clock, request, httpResponse, spies>>
    /\ UNCHANGED <<retryVars, cacheVars, healthVars, chatVars, fixVars, raceVars, rateVars,
                   storeVars, cartVars, forceVars, syncVars, tokenVars, gatewayVars>>

NextLimit ==
    \/ \E userKey \in Users, idKind \in ConversationIdKinds, class \in {"commerce", "offTopic"} :
           GuardedMessage(userKey, idKind, class)
    \/ RouteTick

\* ======================================================================
\* Guardrails.checkRateLimit, with the log of its verdicts
\* ======================================================================
RateInit == rateLog = [u \in Users |-> <<>>]

\* One call of checkRateLimit(userId), as the middleware makes it.
CheckRateLimitCall(userKey) ==
    /\ Len(rateLog[userKey]) < MaxChecks
    /\ rateLimitStore' = checkRateLimit(rateLimitStore, userKey, clock).store
    /\ rateLog' = [rateLog EXCEPT ![userKey] =
                        Append(@, [time |-> clock,
                                   allowed |-> checkRateLimit(rateLimitStore, userKey, clock).allowed])]
    /\ UNCHANGED <<conversationStore, clock, request, httpResponse, spies>>
    /\ UNCHANGED <<retryVars, cacheVars, healthVars, chatVars, fixVars, raceVars, storeVars, cartVars, forceVars, syncVars, limitVars, tokenVars, gatewayVars>>

NextRate ==
    \/ \E userKey \in Users : CheckRateLimitCall(userKey)
    \/ RouteTick

\* The start of the window the i-th check of a log falls in: the first
\* check opens a window, and so does each check made more than RateWindow
\* after the start of the window before it.
RECURSIVE WindowStart(_, _)
WindowStart(log, i) ==
    IF i = 1
    THEN log[1].time
    ELSE IF log[i].time > WindowStart(log, i - 1) + RateWindow
         THEN log[i].time
         ELSE WindowStart(log, i - 1)

\* The checks before the i-th that passed in the same window.
PassedBefore(log, i) ==
    {j \in 1..(i - 1) : WindowStart(log, j) = WindowStart(log, i) /\ log[j].allowed}

\* C22: for each user identity, a check passes exactly when fewer than
\* maxMessagesPerMinute checks have passed before it in its window: at most
\* maxMessagesPerMinute pass per window, every further one in the window is
\* rejected, and the first check after the window has expired passes and
\* opens a new window with a count of one.
C22_RateLimitPerWindow ==
    \A u \in Users :
        /\ \A i \in 1..Len(rateLog[u]) :
                rateLog[u][i].allowed
                    <=> Cardinality(PassedBefore(rateLog[u], i)) < maxMessagesPerMinute
        /\ Len(rateLog[u]) > 0 =>
                /\ rateLimitStore[u].resetTime = WindowStart(rateLog[u], Len(rateLog[u])) + RateWindow
                /\ rateLimitStore[u].count =
                        Cardinality({j \in 1..Len(rateLog[u]) :
                            /\ WindowStart(rateLog[u], j) = WindowStart(rateLog[u], Len(rateLog[u]))
                            /\ rateLog[u][j].allowed})

\* A user filled a window, was rejected in it, and passed again after it
\* expired, while the other user's window was untouched.
C22_Witness ==
    /\ Len(rateLog["u1"]) = 4
    /\ rateLog["u1"][2].allowed
    /\ ~rateLog["u1"][3].allowed
    /\ rateLog["u1"][4].allowed
    /\ rateLimitStore["u1"].count = 1
    /\ Len(rateLog["anonymous"]) = 1

\* ======================================================================
\* Specifications
\* ======================================================================
Init ==
    /\ RetryInit
    /\ CacheInit
    /\ HealthInit
    /\ ChatInit
    /\ FixInit
    /\ RouteInit
    /\ RaceInit
    /\ RateInit
    /\ StoreInit
    /\ CartInit
    /\ ForceInit
    /\ SyncInit
    /\ LimitInit
    /\ TokenInit
    /\ GatewayInit

SpecRetry == Init /\ [][NextRetry]_vars

SpecCache == Init /\ [][NextCache]_vars

SpecHealth == Init /\ [][NextHealth]_vars

Spec == Init /\ [][Next]_vars

SpecFix == Init /\ [][NextFix]_vars

SpecRoute == Init /\ [][NextRoute]_vars

SpecRace == Init /\ [][NextRace]_vars

SpecRate == Init /\ [][NextRate]_vars

SpecStore == Init /\ [][NextStore]_vars

SpecPrune == Init /\ [][NextPrune]_vars

SpecCart == Init /\ [][NextCart]_vars

SpecForce == Init /\ [][NextForce]_vars

SpecSync == Init /\ [][NextSync]_vars

SpecLimit == Init /\ [][NextLimit]_vars

SpecToken == Init /\ [][NextToken]_vars

SpecGateway == Init /\ [][NextGateway]_vars

\* ---- claims about the chat turn

\* The automatic calls of the turn have been made (or skipped).
ChainStagePassed == turnPc = "provider2" \/ (turnPc = "idle" /\ Len(toolCalls) > 0)

\* The i-th call of the turn was asked for by the provider, for the named
\* tool, and the tool server answered it with its success payload.
SucceededAt(i, name) ==
    /\ toolCalls[i].name = name
    /\ ~toolCalls[i].auto
    /\ toolResults[i].kind = "ok"

\* The names of a sequence of gateway calls.
NamesOf(calls) == [i \in 1..Len(calls) |-> calls[i].name]

\* The gateway calls the step added.
NewGatewayCalls == SubSeq(gatewayCalls', Len(gatewayCalls) + 1, Len(gatewayCalls'))

\* The step executed one tool call for the named tool.
Executes(names) ==
    /\ Len(toolCalls') = Len(toolCalls) + 1
    /\ Last(toolCalls').name \in names

\* C7 (as claimed): a successful set-delivery-address is immediately
\* followed, in the same turn and with no other tool invocation in between,
\* by a get-delivery-modes invocation, whose modes are stored.
C7_ImmediateChain ==
    \A i \in 1..Len(toolCalls) :
        SucceededAt(i, "set-delivery-address") =>
            /\ i < Len(toolCalls) => toolCalls[i + 1].name = "get-delivery-modes"
            /\ ChainStagePassed => i < Len(toolCalls)

\* C7 (amended): in every turn in which a set-delivery-address call the
\* provider asked for succeeds, one get-delivery-modes invocation is made
\* automatically in the same turn, after all the calls the provider asked
\* for and after the automatic place-order if there is one (so not
\* necessarily right after the address call); it is listed last in
\* toolsUsed, and a mode list it returns is stored for the conversation.
C7_ChainAfterRequestedCalls ==
    (ChainStagePassed /\ \E i \in 1..Len(toolCalls) : SucceededAt(i, "set-delivery-address")) =>
        LET n == Len(toolCalls) IN
        /\ toolCalls[n] = AutoCall("get-delivery-modes")
        /\ \A j \in 1..(n - 1) :
                \/ ~toolCalls[j].auto
                \/ /\ toolCalls[j] = AutoCall("place-order")
                   /\ \A k \in 1..(j - 1) : ~toolCalls[k].auto
        /\ Last(gatewayCalls).name = "get-delivery-modes"
        /\ Last(gatewayCalls).cartId = cartsByConversation[conversationId]
        /\ Last(toolsUsed) = "get-delivery-modes"
        /\ toolResults[n].kind = "ok" =>
                deliveryModesByConversation[conversationId] = toolResults[n].modes

\* C7 witness: the address call succeeded, another tool ran after it, and
\* the automatic get-delivery-modes came last and its modes were stored.
C7_Witness ==
    /\ ChainStagePassed
    /\ Len(toolCalls) = 3
    /\ SucceededAt(1, "set-delivery-address")
    /\ toolCalls[2].name = "search-products"
    /\ toolCalls[3] = AutoCall("get-delivery-modes")
    /\ toolResults[3].kind = "ok"
    /\ toolResults[3].modes = "modesB"
    /\ deliveryModesByConversation[conversationId] = "modesB"

\* C8 (as claimed): a successful place-order leaves the conversation without
\* a stored cart id, and the next add-to-cart creates a new cart with one
\* create-cart call and sends no call for the ordered cart.
C8_OrderedCartNotReused ==
    [][/\ (Executes({"place-order"}) /\ Last(toolResults').kind = "ok") =>
                cartsByConversation'[conversationId] = NoCart
       /\ (/\ Executes({"add-to-cart"})
           /\ orderedCart[conversationId] # NoCart
           /\ cartsByConversation[conversationId] = NoCart) =>
                /\ Len(NewGatewayCalls) >= 1
                /\ NewGatewayCalls[1].name = "create-cart"
                /\ \A j \in 2..Len(NewGatewayCalls) : NewGatewayCalls[j].name # "create-cart"
                /\ \A j \in 1..Len(NewGatewayCalls) :
                        NewGatewayCalls[j].cartId # orderedCart[conversationId]]_vars

\* The tools that change a cart.
CartMutatingTools ==
    {"add-to-cart", "update-cart-entry", "remove-from-cart", "set-delivery-address",
     "set-delivery-mode", "set-payment-details"}

\* C9 (as claimed): every cart-mutating tool call resolves the cart id
\* first, creating a cart when the conversation has none, and no
\* cart-mutating call reaches the gateway without a cart id.
C9_CartResolvedBeforeMutation ==
    [][Executes(CartMutatingTools) =>
        /\ \A j \in 1..Len(NewGatewayCalls) :
                NewGatewayCalls[j].name \in CartMutatingTools =>
                    NewGatewayCalls[j].cartId # NoCart
        /\ (/\ cartsByConversation[conversationId] = NoCart
            /\ Last(toolCalls').cartId = NoCart) =>
                /\ Len(NewGatewayCalls) >= 1
                /\ NewGatewayCalls[1].name = "create-cart"]_vars

\* The turn has answered, and the provider asked for exactly one tool call,
\* an add-to-cart, in a conversation that had no stored cart.
OnlyAddToCartWithoutCart ==
    /\ turnPc = "idle"
    /\ response.status = "ok"
    /\ Len(toolCalls) = 1
    /\ toolCalls[1].name = "add-to-cart"
    /\ cartAtStart = NoCart

\* C10 (as claimed): such a turn makes exactly one create-cart call followed
\* by exactly one add-to-cart call, and the response's tools-used metadata
\* lists both, in that order.
C10_MetadataListsBoth ==
    OnlyAddToCartWithoutCart =>
        /\ NamesOf(gatewayCalls) = <<"create-cart", "add-to-cart">>
        /\ response.mcpToolsUsed = <<"create-cart", "add-to-cart">>

\* C10 (amended): such a turn, when the call names no cart itself, makes
\* exactly one create-cart call, followed, when create-cart answered with a
\* cart, by exactly one add-to-cart call for that cart, which is then the
\* stored cart; the tools-used metadata lists add-to-cart only.
C10_ImplicitCreateNotListed ==
    (OnlyAddToCartWithoutCart /\ toolCalls[1].cartId = NoCart) =>
        /\ Len(gatewayCalls) >= 1
        /\ gatewayCalls[1].name = "create-cart"
        /\ IF gatewayCalls[1].kind = "ok"
           THEN /\ NamesOf(gatewayCalls) = <<"create-cart", "add-to-cart">>
                /\ gatewayCalls[2].cartId # NoCart
                /\ gatewayCalls[2].cartId = cartsByConversation[conversationId]
                /\ ~toolResults[1].error
           ELSE /\ NamesOf(gatewayCalls) = <<"create-cart">>
                /\ cartsByConversation[conversationId] = NoCart
                /\ toolResults[1].error
        /\ response.mcpToolsUsed = <<"add-to-cart">>

\* C10 witness: the turn created cart 1, added to it and answered.
C10_Witness ==
    /\ OnlyAddToCartWithoutCart
    /\ toolCalls[1].cartId = NoCart
    /\ NamesOf(gatewayCalls) = <<"create-cart", "add-to-cart">>
    /\ gatewayCalls[2].kind = "ok"
    /\ cartsByConversation[conversationId] = 1
    /\ response.mcpToolsUsed = <<"add-to-cart">>

\* ---- the tool catalog and the authentication flag

\* A turn starts: handleChatMessage computes the catalog for its first
\* provider call.
TurnStarts == turnPc = "idle" /\ turnPc' = "provider"

\* C13: the catalog offered to the provider contains get-order-history,
\* get-order-status and place-order if and only if the request's
\* authentication flag is true (all three with it, none of them without),
\* and a turn with the same flag as the turn before it is offered the same
\* catalog, whatever the conversation and its history.
C13_CatalogGatedByFlag ==
    [][TurnStarts =>
        /\ isAuthenticated' <=> {"get-order-history", "get-order-status", "place-order"} \subseteq tools'
        /\ ~isAuthenticated' <=> {"get-order-history", "get-order-status", "place-order"} \cap tools' = {}
        /\ turns > 0 /\ isAuthenticated' = isAuthenticated => tools' = tools]_vars

\* The second turn is unauthenticated like the first, in another
\* conversation, after the first one executed tools.
C13_Witness ==
    /\ turns = 2
    /\ turnPc = "provider"
    /\ ~isAuthenticated
    /\ "place-order" \notin tools
    /\ conversationId = "c2"
    /\ conversations["c1"].exists
    /\ cartsCreated > 0

\* C14 (as claimed): in a turn whose request is not authenticated, no
\* place-order, get-order-status or get-order-history call reaches the
\* gateway, whether the provider asked for it or the engine chained it after
\* set-payment-details.
C14_AuthOnlyToolsNotExecuted ==
    ~isAuthenticated =>
        \A i \in 1..Len(gatewayCalls) :
            gatewayCalls[i].name \notin {"place-order", "get-order-status", "get-order-history"}

\* ---- auto place-order

AutoPlaceOrders == {i \in 1..Len(toolCalls) : toolCalls[i].auto /\ toolCalls[i].name = "place-order"}

SuccessfulPaymentDetails ==
    {i \in 1..Len(toolCalls) :
        /\ ~toolCalls[i].auto
        /\ toolCalls[i].name = "set-payment-details"
        /\ toolResults[i].kind = "ok"}

\* C16 (as claimed): once the chaining stage of a turn has run, the turn
\* holds exactly one automatic place-order call for each successful
\* set-payment-details call of the turn.
C16_AutoPlaceOrderOncePerSuccess ==
    turnPc \in {"autoDeliveryModes", "provider2"} =>
        Cardinality(AutoPlaceOrders) = Cardinality(SuccessfulPaymentDetails)

\* ---- provider faults

FailedResult(result) == result.error \/ result.kind \in {"errorText", "isError", "unauthorized"}

\* C18: a failing tool call does not abort the turn: executing a call
\* appends exactly one result, the result of that call, and leaves the turn
\* in the loop with no response, so that the calls after a failed one are
\* executed in order; and the follow-up provider call is passed one
\* tool_result block per call of the turn, in order, each with that call's
\* result.
C18_ToolFailureIsolated ==
    [][/\ (turnPc = "tools" /\ toolCalls' # toolCalls) =>
            /\ Len(toolCalls') = Len(toolCalls) + 1
            /\ Len(toolResults') = Len(toolCalls')
            /\ SubSeq(toolResults', 1, Len(toolResults)) = toolResults
            /\ turnPc' = "tools"
            /\ response' = NoResponse
       /\ (turnPc # "provider2" /\ turnPc' = "provider2") =>
            /\ Len(sentToProvider') = Len(toolCalls')
            /\ \A i \in 1..Len(toolCalls') :
                    /\ sentToProvider'[i].tool_use_id = i
                    /\ sentToProvider'[i].content = toolResults'[i].kind]_vars

\* The first call of the turn threw, the second was executed and succeeded,
\* and both results were passed to the follow-up provider call.
C18_Witness ==
    /\ turnPc = "provider2"
    /\ Len(toolCalls) = 2
    /\ toolResults[1].error
    /\ FailedResult(toolResults[1])
    /\ toolResults[2].kind = "ok"
    /\ Len(sentToProvider) = 2
    /\ sentToProvider[1].content = toolResults[1].kind

\* ---- authentication expiry

\* C19 (as claimed): a turn in which a tool result carries an unauthorized
\* signature makes no follow-up provider call.
C19_AuthExpiryShortCircuits ==
    (\E i \in 1..Len(toolResults) : toolResults[i].kind = "unauthorized") => turnPc # "provider2"

\* ---- the tool invocation boundary

\* C20 (as claimed): whenever the backend operation behind a gateway call
\* failed, the result the call returned has isError = true.
C20_FailureHasIsError ==
    \A i \in 1..Len(gatewayCalls) :
        gatewayCalls[i].kind # "ok" => gatewayCalls[i].kind \in {"isError", "unauthorized"}

\* ---- empty replies

\* C21: every completed turn returns and stores a non-empty assistant
\* message, the same text in the response and in the history; it is the
\* fixed placeholder when the provider's final text is empty.
C21_ReplyNeverEmpty ==
    [][(turnPc # "idle" /\ turnPc' = "idle" /\ response'.status = "ok") =>
        /\ response'.message # ""
        /\ response'.message \in (ProviderTexts \ {""}) \cup {"Processing your request..."}
        /\ Last(conversations'[conversationId].messages) =
                [role |-> "assistant", content |-> response'.message]]_vars

\* A turn that executed tools has completed with the placeholder as its reply.
C21_Witness ==
    /\ turnPc = "idle"
    /\ response.status = "ok"
    /\ response.message = "Processing your request..."
    /\ Len(toolCalls) > 0
    /\ Last(conversations[conversationId].messages).content = "Processing your request..."

\* ---- chaining after a failed call

AutoCallsOf(name) == {i \in 1..Len(toolCalls) : toolCalls[i].auto /\ toolCalls[i].name = name}

SucceededCallsOf(name) ==
    {i \in 1..Len(toolCalls) :
        /\ ~toolCalls[i].auto
        /\ toolCalls[i].name = name
        /\ ~FailedResult(toolResults[i])}

\* C28 (as claimed): an automatic get-delivery-modes is issued only in a
\* turn with a set-delivery-address call that succeeded, and an automatic
\* place-order only in a turn with a set-payment-details call that
\* succeeded; a predecessor whose result is an error triggers nothing.
C28_NoChainAfterFailure ==
    /\ AutoCallsOf("get-delivery-modes") # {} => SucceededCallsOf("set-delivery-address") # {}
    /\ AutoCallsOf("place-order") # {} => SucceededCallsOf("set-payment-details") # {}

\* ---- the health window

\* C30: an evaluation computes the error rate and the cache hit rate from
\* the four counters, which hold what was recorded since the previous
\* evaluation, classifies them, and resets the four counters to zero, so
\* that nothing recorded before an evaluation reaches the next one; a window
\* with no request and no cache lookup evaluates to healthy.
C30_WindowMemoryless ==
    [][checkHealth =>
        /\ errorCount' = 0 /\ requestCount' = 0 /\ cacheHits' = 0 /\ cacheMisses' = 0
        /\ status'.errorRate =
                (IF requestCount > 0 THEN Rate(errorCount, requestCount) ELSE Rate(0, 1))
        /\ status'.cacheHitRate =
                (IF cacheHits + cacheMisses > 0
                 THEN Rate(cacheHits, cacheHits + cacheMisses)
                 ELSE Rate(1, 1))
        /\ status'.status = determineStatus(status'.errorRate, status'.cacheHitRate)
        /\ (requestCount = 0 /\ cacheHits + cacheMisses = 0) => status'.status = "healthy"]_vars

\* An evaluation of a window of errors and cache misses has just classified
\* it unhealthy and reset the counters: the next window starts empty.
C30_Witness ==
    /\ status.lastCheck = "evaluated"
    /\ status.status = "unhealthy"
    /\ status.errorRate = [num |-> 1, den |-> 1]
    /\ status.cacheHitRate = [num |-> 0, den |-> 1]
    /\ errorCount = 0 /\ requestCount = 0 /\ cacheHits = 0 /\ cacheMisses = 0

\* ---- the conversation ceiling

\* The request of a step passed the content and the rate check.
ReachedConversationCheck ==
    /\ request'.message # MissingMessage
    /\ httpResponse'.error \notin {"Invalid message", "Rate limit exceeded"}

\* C23: a request naming no conversation is rejected by the conversation
\* check (429) when the user's set of tracked conversation ids has reached
\* the ceiling or is above it, and only then; a request naming a
\* conversation id is never rejected by it.
C23_ConversationCeiling ==
    [][(clock' = clock /\ ReachedConversationCheck) =>
        /\ (/\ request'.conversationId = "none"
            /\ conversationStore[request'.userKey] >= maxConversationsPerUser) =>
                /\ httpResponse'.status = 429
                /\ httpResponse'.error = "Conversation limit exceeded"
                /\ spies' = NoSpies
        /\ httpResponse'.error = "Conversation limit exceeded" =>
                /\ request'.conversationId = "none"
                /\ conversationStore[request'.userKey] >= maxConversationsPerUser
        /\ request'.conversationId # "none" =>
                httpResponse'.error # "Conversation limit exceeded"]_vars

\* A request for a new conversation was rejected while the user's set was
\* above the ceiling, and the same user's set had grown past the ceiling
\* through requests naming conversation ids.
C23_Witness ==
    /\ httpResponse.error = "Conversation limit exceeded"
    /\ request.conversationId = "none"
    /\ conversationStore[request.userKey] > maxConversationsPerUser

\* ---- claims about the Session Store

\* C24: addMessage with a conversation id that is not in the store throws the
\* not-found error and changes nothing: no conversation is created, no
\* conversation's messages change, and the checkout maps stay as they were.
C24_UnknownIdNotFound ==
    [][(storeOp'.op = "addMessage" /\ storeOp'.id \notin IdsOf(sessionStore))
          => /\ storeOp'.thrown = NotFound
             /\ sessionStore' = sessionStore
             /\ UNCHANGED <<storedCarts, storedModes, storedOrderCodes>>]_vars

\* An addMessage on an unknown id has thrown while another conversation
\* holds messages.
C24_Witness ==
    /\ storeOp.op = "addMessage"
    /\ storeOp.thrown = NotFound
    /\ storeOp.id \notin IdsOf(sessionStore)
    /\ \E i \in 1..Len(sessionStore) : Len(sessionStore[i].messages) > 0

\* C25: after every addMessage a conversation holds at most MAX_MESSAGES
\* messages; the messages dropped by an addMessage are not system-flagged
\* and are older than every non-system message that is kept.
C25_MessageCap ==
    [][(storeOp'.op = "addMessage" /\ storeOp'.thrown = NotThrown)
          => LET id       == storeOp'.id
                 before   == sessionStore[Lookup(sessionStore, id)].messages
                 after    == sessionStore'[Lookup(sessionStore', id)].messages
                 contents == {after[i].content : i \in 1..Len(after)}
                 dropped  == {i \in 1..Len(before) : before[i].content \notin contents}
             IN  /\ Len(after) <= MAX_MESSAGES
                 /\ \A i \in dropped :
                        /\ ~IsSystemMessage(before[i])
                        /\ \A k \in 1..Len(after) :
                               ~IsSystemMessage(after[k])
                                   => before[i].content < after[k].content]_vars

\* C26: no cart id, delivery modes or last order code is stored for a
\* conversation id that is not in the store.
C26_CheckoutStateRemovedWithConversation ==
    (storedCarts \cup storedModes \cup storedOrderCodes) \subseteq IdsOf(sessionStore)

\* ---- claims about concurrent add-to-cart executions

\* The cart ids set for conversation c, in the order of the sets.
CartSetsOf(c) == SelectSeq(cartSets, LAMBDA e : e.conversationId = c)

\* C27: cart-id resolution and cart creation are separate steps. Every
\* add-to-cart execution that resolves no cart id calls create-cart itself,
\* whether or not another execution of the same conversation is already
\* creating one; every answered create-cart stores a cart id not stored
\* before; and the cart id stored for a conversation is always the one set
\* last.
C27_CartCreationNotAtomic ==
    /\ [](\A c \in ConversationIds :
             storedCartIds[c] =
                 IF CartSetsOf(c) = <<>> THEN NoCart
                 ELSE CartSetsOf(c)[Len(CartSetsOf(c))].cartId)
    /\ [][\A p \in Callers :
             /\ (callerPc[p] = "idle" /\ callerPc'[p] # "idle" /\ callerCartId'[p] = NoCart)
                    => /\ callerPc'[p] = "creating"
                       /\ createCartCalls' = Append(createCartCalls, callerConversation'[p])
             /\ (callerPc[p] = "creating" /\ callerPc'[p] = "adding")
                    => /\ storedCartIds'[callerConversation[p]] = callerCartId'[p]
                       /\ \A i \in 1..Len(cartSets) : cartSets[i].cartId # callerCartId'[p]]_vars

\* Two create-cart calls were made for one conversation, both were answered
\* with a cart, and only the second cart id is stored.
C27_Witness ==
    \E c \in ConversationIds :
        /\ Len(SelectSeq(createCartCalls, LAMBDA x : x = c)) >= 2
        /\ Len(CartSetsOf(c)) >= 2
        /\ CartSetsOf(c)[1].cartId # CartSetsOf(c)[2].cartId
        /\ storedCartIds[c] = CartSetsOf(c)[Len(CartSetsOf(c))].cartId
        /\ storedCartIds[c] # CartSetsOf(c)[1].cartId

\* ---- claims about tool forcing

\* C29: the directive of the first provider call is the forced
\* get-order-status exactly when the caller is authenticated, the message is
\* an order inquiry, and the message or the conversation's tracked last
\* order code gives a code; and the get-order-status call that answers a
\* forced directive asks for that code.
C29_ToolForcing ==
    /\ forcePc = "awaiting"
           => (toolChoice = ToolChoiceOrderStatus
                   <=> /\ forceRequest.isAuthenticated
                       /\ forceRequest.isOrderInquiry
                       /\ \/ forceRequest.orderCode # NoOrderCode
                          \/ lastOrderCodeByConversation[forceRequest.conversationId]
                                 # NoOrderCode)
    /\ (toolChoice = ToolChoiceAuto) \/ (toolChoice = ToolChoiceOrderStatus)
    /\ (forcePc = "idle" /\ toolChoice = ToolChoiceOrderStatus)
           => requestedOrderCode = orderCodeToUse

\* The conversation with this id in the store.
ConversationOf(store, id) == store[Lookup(store, id)]

\* C33: clearConversation(id) on a stored conversation leaves it in the store
\* with no messages, removes the id from the cart, delivery-mode and
\* order-code maps, and leaves every other conversation and every other
\* id's checkout state as it was; an addMessage that names a stored id
\* (a cleared one included) does not throw and appends the message.
C33_ClearKeepsConversation ==
    [][/\ storeOp'.op = "clearConversation"
           => LET id == storeOp'.id IN
              /\ IdsOf(sessionStore') = IdsOf(sessionStore)
              /\ Len(sessionStore') = Len(sessionStore)
              /\ \A i \in 1..Len(sessionStore) :
                     IF sessionStore[i].id = id
                     THEN /\ sessionStore'[i].id = id
                          /\ sessionStore'[i].messages = <<>>
                     ELSE sessionStore'[i] = sessionStore[i]
              /\ storedCarts' = storedCarts \ {id}
              /\ storedModes' = storedModes \ {id}
              /\ storedOrderCodes' = storedOrderCodes \ {id}
       /\ (storeOp'.op = "addMessage" /\ storeOp'.id \in IdsOf(sessionStore))
           => /\ storeOp'.thrown = NotThrown
              /\ storeOp'.id \in IdsOf(sessionStore')
              /\ LET after == ConversationOf(sessionStore', storeOp'.id).messages
                 IN  /\ after # <<>>
                     /\ after[Len(after)].content = appended']_vars

\* No conversation was ever removed, two messages were given to the store
\* and only the second is left: a conversation was cleared, and afterwards
\* a message was appended to a stored conversation, while another
\* conversation keeps its cart id.
C33_Witness ==
    /\ storeOp.op = "addMessage"
    /\ storeOp.thrown = NotThrown
    /\ Len(sessionStore) = nextId - 1
    /\ Len(sessionStore) >= 2
    /\ appended = 2
    /\ \A i \in 1..Len(sessionStore) :
           sessionStore[i].messages # <<>> => sessionStore[i].id = storeOp.id
    /\ Len(ConversationOf(sessionStore, storeOp.id).messages) = 1
    /\ storedCarts \ {storeOp.id} # {}

\* C34: createConversation leaves at most MAX_CONVERSATIONS conversations in
\* the store, the created one among them; a conversation it removes was
\* updated no later than any conversation it keeps.
C34_ConversationCeiling ==
    /\ [](Len(sessionStore) <= MAX_CONVERSATIONS)
    /\ [][storeOp'.op = "createConversation"
             => /\ storeOp'.id \in IdsOf(sessionStore')
                /\ IdsOf(sessionStore') = (IdsOf(sessionStore) \cup {storeOp'.id})
                                              \ storeOp'.removed
                /\ \A r \in storeOp'.removed, k \in IdsOf(sessionStore') \ {storeOp'.id} :
                       ConversationOf(sessionStore, r).updatedAt
                           <= ConversationOf(sessionStore, k).updatedAt]_vars

\* A createConversation has evicted a conversation from a full store in
\* which the conversations' update times differ.
C34_Witness ==
    /\ storeOp.op = "createConversation"
    /\ storeOp.removed # {}
    /\ Len(sessionStore) = MAX_CONVERSATIONS
    /\ \E i, j \in 1..Len(sessionStore) : sessionStore[i].updatedAt < sessionStore[j].updatedAt

\* C39: in every conversation the retained messages are distinct and in
\* arrival order (message contents are arrival numbers).
C39_HistoryWellFormed ==
    \A c \in 1..Len(sessionStore) :
        LET messages == sessionStore[c].messages
        IN  \A i, j \in 1..Len(messages) :
                i < j => messages[i].content < messages[j].content

\* C38: a set of a key that a full cache already holds stores the new value
\* and expiry for that key and leaves every other entry in place, and the
\* cache never holds more than maxSize entries.
C38_OverwriteEvictsNothing ==
    /\ [](Len(cache) <= maxSize)
    /\ [][\A key \in Keys, value \in CacheValues :
            (/\ CacheSet(key, value)
             /\ Len(cache) = maxSize
             /\ HasKey(cache, key)) =>
                /\ KeysOf(cache') = KeysOf(cache)
                /\ EntryOf(cache', key) =
                       [key |-> key, value |-> value, expiresAt |-> now + ttl]
                /\ \A k \in KeysOf(cache) \ {key} :
                       EntryOf(cache', k) = EntryOf(cache, k)]_vars

\* C35: a place-order call whose result is a failure leaves the cart id
\* stored for the conversation as it was.
C35_FailedOrderKeepsCart ==
    [][(/\ Len(toolResults') = Len(toolResults) + 1
        /\ Last(toolCalls').name = "place-order"
        /\ Last(toolResults').kind # "ok")
          => cartsByConversation'[conversationId] = cartsByConversation[conversationId]]_vars

\* ---- claims about the cart the bridge and the tool server work on

\* C36: whenever a cart id is stored for the conversation after a successful
\* add-to-cart, it is the id of the cart that add-to-cart added to.
C36_StoredCartIsModifiedCart ==
    (bridgeCartId # NoCart /\ modifiedCart # NoCart) => bridgeCartId = modifiedCart

\* ---- claims about conversations created behind the guardrails

\* C37: no identity has more than maxConversationsPerUser conversations
\* created for it, and no identity's set of tracked conversation ids holds
\* more than maxConversationsPerUser ids.
C37_CreationBoundedPerIdentity ==
    \A u \in Users :
        /\ createdFor[u] <= maxConversationsPerUser
        /\ conversationStore[u] <= maxConversationsPerUser

\* ---- claims about getAuthToken

\* C40: a getAuthToken call returns the cached token only while less than
\* expires_in minus the buffer has elapsed since the token was obtained; from
\* then on the call requests a new token.
C40_TokenRefreshedWhenDue ==
    [][(tokenOp' # tokenOp /\ authToken # NoToken)
          => LET elapsed == tokenClock - authToken.obtainedAt
                 due     == elapsed >= authToken.expires_in - BufferTime
             IN  /\ ~tokenOp'.requested => ~due
                 /\ due => tokenOp'.requested]_vars

\* C31: every backend request made through the gateway, requests with a
\* caller access token included, is recorded exactly once in the health
\* monitor with its latency and its success or failure: a step that makes
\* n requests, f of them failing, raises requestCount by n and errorCount
\* by f and leaves the latency of the latest request in the status.
C31_EveryRequestRecorded ==
    [][gatewayRequests' # gatewayRequests
           => /\ requestCount' - requestCount = gatewayRequests' - gatewayRequests
              /\ errorCount' - errorCount = gatewayOp'.failed
              /\ status'.apiLatency = gatewayOp'.latency]_vars

\* C32: every withCache lookup records exactly one cache access, a hit
\* exactly when the value returned is the unexpired cached value and no
\* backend request was made, a miss exactly when the backend operation was
\* invoked; a cart, order or checkout operation leaves the cache and the
\* cache counters as they were.
C32_LookupsObservable ==
    [][/\ gatewayLookups' # gatewayLookups
           => /\ gatewayLookups' = gatewayLookups + 1
              /\ cacheHits' + cacheMisses' = cacheHits + cacheMisses + 1
              /\ cacheHits' >= cacheHits /\ cacheMisses' >= cacheMisses
              /\ cacheHits' = cacheHits + 1
                     <=> /\ HasKey(cache, gatewayOp'.key)
                         /\ ~IsExpired(now, EntryOf(cache, gatewayOp'.key))
                         /\ gatewayOp'.ret = EntryOf(cache, gatewayOp'.key).value
                         /\ ~gatewayOp'.invoked
                         /\ gatewayRequests' = gatewayRequests
              /\ cacheMisses' = cacheMisses + 1
                     <=> /\ gatewayOp'.invoked
                         /\ gatewayRequests' > gatewayRequests
       /\ (gatewayLookups' = gatewayLookups /\ gatewayRequests' # gatewayRequests)
           => /\ gatewayOp'.op = "mutation"
              /\ UNCHANGED <<cache, cacheHits, cacheMisses>>]_vars

\* A hit has just been served from the cache after a miss filled it, and
\* an operation with a caller access token was made in between or before.
C32_Witness ==
    /\ gatewayOp.op = "cacheable"
    /\ gatewayOp.hit
    /\ gatewayOp.ret = "a"
    /\ cacheHits >= 1
    /\ cacheMisses >= 1
    /\ gatewayRequests > requestCount

====
